---- MODULE Spec2Model ----
(***************************************************************************)
(* Learn and Conquer: a model of the session store (App), of LoginView and *)
(* of the mode controllers (SettingsView, FlashcardView, QuizView,         *)
(* ContributeView, LibraryView, PlannerView, WhiteboardView, ChatView) of  *)
(* src/App.tsx, together with the provider client of src/unnamed/part_000  *)
(* (services/geminiService).                                               *)
(*                                                                         *)
(* Every React component's useState cells are the fields of one record     *)
(* variable named after the component.  A provider call that has been      *)
(* issued and has not answered yet is an element of a "calls" variable     *)
(* holding the values its continuation closed over.  An event handler is   *)
(* one action; an awaited continuation is one action per resumption.       *)
(*                                                                         *)
(* Text is a sequence of one-character strings, so that concatenation,     *)
(* trim(), toLowerCase() and includes() are computed, not assumed.         *)
(* A nullable value is a sequence of length <= 1: Null or Some(v).         *)
(*                                                                         *)
(* Spec models the session store with LoginView and the view router, and   *)
(* SpecSession adds the notes and the books of a logged-in session to it.  *)
(* SpecChat, SpecQuiz, SpecLibrary, SpecFlashcards, SpecPlanner and        *)
(* SpecContribute each model one mounted instance of a view, whose props   *)
(* (settings, isAdminMode) cannot change while it is mounted, because only *)
(* SettingsView changes them and showing it unmounts the view.             *)
(***************************************************************************)
EXTENDS Integers, Sequences, FiniteSets, TLC

VARIABLES
    app,        \* App: user, currentView, settings, isAdminMode
    login,      \* LoginView: step, name, email, isRegister, country, province, syllabus, grade
    quiz,       \* QuizView: topic, questions, currentIndex, score, selectedAnswer, showResult, isLoading
    quizCalls,  \* generateQuiz calls awaiting their answer
    quizAnswers,\* history: the selections handleAnswer accepted since the questions were loaded
    library,    \* LibraryView: searchQuery, books, searching, externalLink
    libraryCalls,\* findExternalBookResource calls, in the order they were issued
    chat,       \* ChatView: messages, input, isTyping
    chatTurns,  \* one entry per handleSend that passed the blank check: what its closure holds
    now,        \* the value Date.now() returned when it was last read
    flashcards, \* FlashcardView: topic, cards, currentIndex, isFlipped, isLoading
    cardObjects,\* the Flashcard objects the arrays of cards refer to
    flashcardCalls,   \* generateFlashcards calls, in the order they were issued
    illustrationCalls,\* generateIllustration calls: what the closure of each loadImg holds
    renderThrew,\* FlashcardView's render has thrown, which unmounts the application
    planner,    \* PlannerView: input, schedule, isLoading, notificationSound, timerSeconds, isTimerRunning, timerMode
    plannerCalls,     \* generateStudySchedule calls: how many were issued, how many await their answer
    plannerInterval,  \* the interval the cleanup of the timer effect will clear
    plannerIntervals, \* the intervals setInterval made that no clearInterval has cleared
    contribute, \* ContributeView: notes, title, content, summarizeInput, summary, isSummarizing, isEditing
    contributeCalls,  \* summarizeText calls: how many were issued, how many await their answer
    whiteboard, \* WhiteboardView: isDrawing, analysis, isAnalyzing, and whether the canvas has ink
    whiteboardCalls,  \* analyzeHandwriting calls: how many were issued, how many await their answer
    timerLog,   \* history: the seconds startTimer set last, the interval callbacks and the completion alerts since
    lastOp      \* the handler that ran last, its argument and the alert() it raised

vars == <<app, login, quiz, quizCalls, quizAnswers, library, libraryCalls, chat, chatTurns, now,
          flashcards, cardObjects, flashcardCalls, illustrationCalls, renderThrew,
          planner, plannerCalls, plannerInterval, plannerIntervals, timerLog,
          contribute, contributeCalls, whiteboard, whiteboardCalls, lastOp>>

appVars == <<app>>

loginVars == <<login>>

quizVars == <<quiz, quizCalls, quizAnswers>>

libraryVars == <<library, libraryCalls>>

chatVars == <<chat, chatTurns, now>>

flashcardVars == <<flashcards, cardObjects, flashcardCalls, illustrationCalls, renderThrew>>

plannerVars == <<planner, plannerCalls, plannerInterval, plannerIntervals, timerLog>>

contributeVars == <<contribute, contributeCalls>>

whiteboardVars == <<whiteboard, whiteboardCalls>>

(* what a handler of one component leaves alone: the state of the others *)
notApp == <<quizVars, libraryVars, chatVars, flashcardVars, plannerVars, contributeVars, whiteboardVars>>

notQuiz == <<appVars, loginVars, libraryVars, chatVars, flashcardVars, plannerVars, contributeVars, whiteboardVars>>

notLibrary == <<appVars, loginVars, quizVars, chatVars, flashcardVars, plannerVars, contributeVars, whiteboardVars>>

notChat == <<appVars, loginVars, quizVars, libraryVars, flashcardVars, plannerVars, contributeVars, whiteboardVars>>

notFlashcards == <<appVars, loginVars, quizVars, libraryVars, chatVars, plannerVars, contributeVars, whiteboardVars>>

notPlanner == <<appVars, loginVars, quizVars, libraryVars, chatVars, flashcardVars, contributeVars, whiteboardVars>>

notContribute == <<appVars, loginVars, quizVars, libraryVars, chatVars, flashcardVars, plannerVars, whiteboardVars>>

notWhiteboard == <<appVars, loginVars, quizVars, libraryVars, chatVars, flashcardVars, plannerVars, contributeVars>>

----------------------------------------------------------------------------
(* Nullable values *)

Null == <<>>

Some(v) == <<v>>

(* What window.prompt() returns: null when cancelled, else the typed text *)
Cancelled == [cancelled |-> TRUE, text |-> ""]

Typed(s) == [cancelled |-> FALSE, text |-> s]

(* pwd === 'ag12de34': strict equality of a prompt() result with a string *)
StrictEq(p, s) == ~p.cancelled /\ p.text = s

(* lastOp: handler name, its integer argument, the prompt() results it read, *)
(* the alert() it raised, and the provider's answer it continued with        *)
Op(name, n, prompts, alert) ==
    [op |-> name, n |-> n, prompts |-> prompts, alert |-> alert, response |-> Null]

Answered(op, response) == [op EXCEPT !.response = Some(response)]

NoAlert == ""

----------------------------------------------------------------------------
(* QuizView *)

MaxQuestions == 2

QuizTopics == {<<>>, <<"C">>}

(* what the provider may put into one item of the generateQuiz payload *)
QuizQuestions == [options : {<<"x", "y">>}, correctAnswerIndex : {0, 1, 2}]

QuizPayloads == UNION {[1..n -> QuizQuestions] : n \in 0..MaxQuestions}

QuizAlert == "Quiz generation failed."

(* the useState initial values of QuizView *)
FreshQuiz ==
    [topic |-> <<>>, questions |-> <<>>, currentIndex |-> 0, score |-> 0,
     selectedAnswer |-> Null, showResult |-> FALSE, isLoading |-> FALSE]

InitQuiz ==
    /\ quiz = FreshQuiz
    /\ quizCalls = 0
    /\ quizAnswers = <<>>

(* JSX: {!questions.length || showResult ? (showResult ? result : form) : question} *)
QuizFormShown == Len(quiz.questions) = 0 /\ ~quiz.showResult

QuizQuestionShown == Len(quiz.questions) # 0 /\ ~quiz.showResult

(* questions[currentIndex]: JavaScript arrays are indexed from 0 *)
CurrentQuestion == quiz.questions[quiz.currentIndex + 1]

(* topic input onChange *)
setTopic(t) ==
    /\ QuizFormShown
    /\ quiz' = [quiz EXCEPT !.topic = t]
    /\ lastOp' = Op("setTopic", 0, <<>>, NoAlert)
    /\ UNCHANGED <<notQuiz, quizCalls, quizAnswers>>

(* QuizView.handleStart up to the await; the button is disabled while isLoading *)
handleStart ==
    /\ QuizFormShown
    /\ ~quiz.isLoading
    /\ IF quiz.topic = <<>>
         THEN UNCHANGED <<quiz, quizCalls>>
         ELSE /\ quiz' = [quiz EXCEPT !.isLoading = TRUE]
              /\ quizCalls' = quizCalls + 1
    /\ lastOp' = Op("handleStart", 0, <<>>, NoAlert)
    /\ UNCHANGED <<notQuiz, quizAnswers>>

(* generateQuiz resolves: try block of handleStart, then finally *)
handleStartResolved(qs) ==
    /\ quizCalls > 0
    /\ quizCalls' = quizCalls - 1
    /\ quiz' = [quiz EXCEPT !.questions = qs, !.currentIndex = 0, !.score = 0,
                            !.selectedAnswer = Null, !.showResult = FALSE,
                            !.isLoading = FALSE]
    /\ quizAnswers' = <<>>
    /\ lastOp' = Op("handleStartResolved", 0, <<>>, NoAlert)
    /\ UNCHANGED notQuiz

(* generateQuiz rejects (transport failure, JSON.parse throws): catch, then finally *)
handleStartRejected ==
    /\ quizCalls > 0
    /\ quizCalls' = quizCalls - 1
    /\ quiz' = [quiz EXCEPT !.isLoading = FALSE]
    /\ lastOp' = Op("handleStartRejected", 0, <<>>, QuizAlert)
    /\ UNCHANGED <<notQuiz, quizAnswers>>

(* handleAnswer comparing with the first question's answer instead of the current one's *)
handleAnswerFirstMutant(index) ==
    /\ QuizQuestionShown
    /\ index \in 0..(Len(CurrentQuestion.options) - 1)
    /\ IF quiz.selectedAnswer # Null
         THEN UNCHANGED <<quiz, quizAnswers>>
         ELSE /\ quiz' = [quiz EXCEPT !.selectedAnswer = Some(index),
                                      !.score = IF index = quiz.questions[1].correctAnswerIndex
                                                  THEN @ + 1 ELSE @]
              /\ quizAnswers' = Append(quizAnswers,
                                       [question |-> quiz.currentIndex, selected |-> index,
                                        correct |-> CurrentQuestion.correctAnswerIndex])
    /\ lastOp' = Op("handleAnswer", index, <<>>, NoAlert)
    /\ UNCHANGED <<notQuiz, quizCalls>>

(* handleAnswer without its first line *)
handleAnswerMutant(index) ==
    /\ QuizQuestionShown
    /\ index \in 0..(Len(CurrentQuestion.options) - 1)
    /\ quiz' = [quiz EXCEPT !.selectedAnswer = Some(index),
                            !.score = IF index = CurrentQuestion.correctAnswerIndex
                                        THEN @ + 1 ELSE @]
    /\ quizAnswers' = Append(quizAnswers,
                             [question |-> quiz.currentIndex, selected |-> index,
                              correct |-> CurrentQuestion.correctAnswerIndex])
    /\ lastOp' = Op("handleAnswer", index, <<>>, NoAlert)
    /\ UNCHANGED <<notQuiz, quizCalls>>

(* QuizView.handleAnswer, called by the option button with its idx; the    *)
(* handler itself rejects a call once selectedAnswer is set                *)
handleAnswer(index) ==
    /\ QuizQuestionShown
    /\ index \in 0..(Len(CurrentQuestion.options) - 1)
    /\ IF quiz.selectedAnswer # Null
         THEN UNCHANGED <<quiz, quizAnswers>>
         ELSE /\ quiz' = [quiz EXCEPT !.selectedAnswer = Some(index),
                                      !.score = IF index = CurrentQuestion.correctAnswerIndex
                                                  THEN @ + 1 ELSE @]
              /\ quizAnswers' = Append(quizAnswers,
                                       [question |-> quiz.currentIndex, selected |-> index,
                                        correct |-> CurrentQuestion.correctAnswerIndex])
    /\ lastOp' = Op("handleAnswer", index, <<>>, NoAlert)
    /\ UNCHANGED <<notQuiz, quizCalls>>

(* a nextQuestion whose button is rendered with every question *)
nextQuestionMutant ==
    /\ QuizQuestionShown
    /\ IF quiz.currentIndex < Len(quiz.questions) - 1
         THEN quiz' = [quiz EXCEPT !.currentIndex = @ + 1, !.selectedAnswer = Null]
         ELSE quiz' = [quiz EXCEPT !.showResult = TRUE]
    /\ lastOp' = Op("nextQuestion", 0, <<>>, NoAlert)
    /\ UNCHANGED <<notQuiz, quizCalls, quizAnswers>>

(* QuizView.nextQuestion; its button is rendered once selectedAnswer is set *)
nextQuestion ==
    /\ QuizQuestionShown
    /\ quiz.selectedAnswer # Null
    /\ IF quiz.currentIndex < Len(quiz.questions) - 1
         THEN quiz' = [quiz EXCEPT !.currentIndex = @ + 1, !.selectedAnswer = Null]
         ELSE quiz' = [quiz EXCEPT !.showResult = TRUE]
    /\ lastOp' = Op("nextQuestion", 0, <<>>, NoAlert)
    /\ UNCHANGED <<notQuiz, quizCalls, quizAnswers>>

(* 'Try Another' on the result screen: setQuestions([]) *)
tryAnother ==
    /\ quiz.showResult
    /\ quiz' = [quiz EXCEPT !.questions = <<>>]
    /\ lastOp' = Op("tryAnother", 0, <<>>, NoAlert)
    /\ UNCHANGED <<notQuiz, quizCalls, quizAnswers>>

----------------------------------------------------------------------------
(* Text: String.prototype.toLowerCase, includes, trim *)

UpperCase == <<"A", "B", "C", "D", "E", "F", "G", "H", "I", "J", "K", "L", "M",
               "N", "O", "P", "Q", "R", "S", "T", "U", "V", "W", "X", "Y", "Z">>

LowerCase == <<"a", "b", "c", "d", "e", "f", "g", "h", "i", "j", "k", "l", "m",
               "n", "o", "p", "q", "r", "s", "t", "u", "v", "w", "x", "y", "z">>

LowerOf(c) ==
    IF \E i \in DOMAIN UpperCase : UpperCase[i] = c
      THEN LowerCase[CHOOSE i \in DOMAIN UpperCase : UpperCase[i] = c]
      ELSE c

toLowerCase(t) == [i \in DOMAIN t |-> LowerOf(t[i])]

includes(t, part) ==
    \E start \in 1..(Len(t) - Len(part) + 1) : SubSeq(t, start, start + Len(part) - 1) = part

(* a value in a JavaScript condition: undefined, null and "" are falsy *)
Truthy(opt) == opt # Null /\ opt[1] # <<>>

(* String.prototype.trim, with " " for white space *)
RECURSIVE trimStart(_)
trimStart(t) == IF t # <<>> /\ Head(t) = " " THEN trimStart(Tail(t)) ELSE t

RECURSIVE trimEnd(_)
trimEnd(t) == IF t # <<>> /\ t[Len(t)] = " " THEN trimEnd(SubSeq(t, 1, Len(t) - 1)) ELSE t

trim(t) == trimEnd(trimStart(t))

----------------------------------------------------------------------------
(* ChatView and streamChatResponse *)

MaxTurns == 2

MaxFragments == 2

MaxTicks == 1

(* Date.now() when the page is loaded; the greeting has the id '1'.  Ids    *)
(* are decimal strings of numbers, compared here as the numbers themselves. *)
Epoch == 10

GreetingId == 1

Greeting == <<"H", "i", "!">>

Apology == <<"S", "o", "r", "r", "y">>

ChatInputs == {<<" ">>, <<"q">>}

Letters == <<"a", "b", "c", "d">>

(* chunk.text of a streamed chunk: undefined, "", or, for the k-th chunk *)
(* that has text, the k-th letter                                        *)
ChunkTexts(k) == {Null, Some(<<>>), Some(<<Letters[k]>>)}

(* the closure of a turn that has ended holds nothing that is read again *)
Ended(turn, state) ==
    [turn EXCEPT !.state = state, !.fullText = <<>>, !.fragments = <<>>]

(* the useState initial values of ChatView *)
FreshChat ==
    [messages |-> <<[id |-> GreetingId, role |-> "model", text |-> Greeting]>>,
     input |-> <<>>, isTyping |-> FALSE]

InitChat ==
    /\ chat = FreshChat
    /\ chatTurns = <<>>
    /\ now = Epoch

(* chat input onChange *)
setInput(v) ==
    /\ chat' = [chat EXCEPT !.input = v]
    /\ UNCHANGED <<notChat, lastOp, chatTurns, now>>

(* prev.map(m => m.id === aiMsgId ? { ...m, text } : m) *)
withText(messages, aiMsgId, text) ==
    [k \in DOMAIN messages |->
        IF messages[k].id = aiMsgId THEN [messages[k] EXCEPT !.text = text] ELSE messages[k]]

(* ChatView.handleSend up to the await.  Date.now() is read for userMsg.id  *)
(* and again for aiMsgId: waited is the time that passed since the clock    *)
(* was last read, elapsed the time that passed between the two readings.    *)
handleSend(waited, elapsed) ==
    IF trim(chat.input) = <<>>
      THEN UNCHANGED <<notChat, lastOp, chatVars>>
      ELSE /\ Len(chatTurns) < MaxTurns
           /\ now + waited + elapsed <= Epoch + MaxTicks
           /\ LET userMsg == [id |-> now + waited, role |-> "user", text |-> chat.input]
                  aiMsgId == now + waited + elapsed + 1
              IN /\ chat' = [messages |-> chat.messages \o
                                   <<userMsg, [id |-> aiMsgId, role |-> "model", text |-> <<>>]>>,
                             input |-> <<>>,
                             isTyping |-> TRUE]
                 /\ chatTurns' = Append(chatTurns,
                                        [aiMsgId |-> aiMsgId, fullText |-> <<>>,
                                         state |-> "sending",
                                         placeholder |-> Len(chat.messages) + 2,
                                         fragments |-> <<>>])
           /\ now' = now + waited + elapsed
           /\ UNCHANGED <<notChat, lastOp>>

(* send button onClick: disabled={!input.trim() || isTyping} *)
onClickSend ==
    /\ ~(trim(chat.input) = <<>> \/ chat.isTyping)
    /\ \E waited \in 0..MaxTicks, elapsed \in 0..1 : handleSend(waited, elapsed)

(* chat input onKeyDown: e.key === 'Enter' && handleSend() *)
onKeyDownEnter ==
    \E waited \in 0..MaxTicks, elapsed \in 0..1 : handleSend(waited, elapsed)

(* streamChatResponse: await chat.sendMessageStream(...) resolves for turn t *)
sendMessageStreamResolved(t) ==
    /\ t \in DOMAIN chatTurns
    /\ chatTurns[t].state = "sending"
    /\ chatTurns' = [chatTurns EXCEPT ![t].state = "streaming"]
    /\ UNCHANGED <<notChat, lastOp, chat, now>>

(* streamChatResponse: one round of for await, and the onChunk of handleSend *)
onChunk(t, text) ==
    /\ t \in DOMAIN chatTurns
    /\ chatTurns[t].state = "streaming"
    /\ IF Truthy(text)
         THEN LET fullText == chatTurns[t].fullText \o text[1] IN
              /\ chatTurns' = [chatTurns EXCEPT ![t].fullText = fullText,
                                                ![t].fragments = Append(@, text[1])]
              /\ chat' = [chat EXCEPT !.messages = withText(@, chatTurns[t].aiMsgId, fullText)]
         ELSE UNCHANGED <<chat, chatTurns>>
    /\ UNCHANGED <<notChat, lastOp, now>>

(* streamChatResponse resolves for turn t: end of the try block, then finally *)
handleSendResolved(t) ==
    /\ t \in DOMAIN chatTurns
    /\ chatTurns[t].state = "streaming"
    /\ chatTurns' = [chatTurns EXCEPT ![t] = Ended(@, "complete")]
    /\ chat' = [chat EXCEPT !.isTyping = FALSE]
    /\ UNCHANGED <<notChat, lastOp, now>>

(* handleSend whose failure path lacks the finally block *)
handleSendRejectedMutant(t) ==
    /\ t \in DOMAIN chatTurns
    /\ chatTurns[t].state \in {"sending", "streaming"}
    /\ chatTurns' = [chatTurns EXCEPT ![t] = Ended(@, "failed")]
    /\ chat' = [chat EXCEPT !.messages = withText(@, chatTurns[t].aiMsgId, Apology)]
    /\ UNCHANGED <<notChat, lastOp, now>>

(* streamChatResponse rejects for turn t, before or between chunks: catch, *)
(* then finally                                                            *)
handleSendRejected(t) ==
    /\ t \in DOMAIN chatTurns
    /\ chatTurns[t].state \in {"sending", "streaming"}
    /\ chatTurns' = [chatTurns EXCEPT ![t] = Ended(@, "failed")]
    /\ chat' = [chat EXCEPT !.messages = withText(@, chatTurns[t].aiMsgId, Apology),
                            !.isTyping = FALSE]
    /\ UNCHANGED <<notChat, lastOp, now>>

(* the provider's next step for turn t *)
providerStep(t) ==
    \/ sendMessageStreamResolved(t)
    \/ /\ t \in DOMAIN chatTurns
       /\ Len(chatTurns[t].fragments) < MaxFragments
       /\ \E text \in ChunkTexts(Len(chatTurns[t].fragments) + 1) : onChunk(t, text)
    \/ handleSendResolved(t)
    \/ handleSendRejected(t)

----------------------------------------------------------------------------
(* Provider client: findExternalBookResource *)

NoDescription == <<"N", "o", "n", "e">>

(* what the provider answers: candidates[0].groundingMetadata.groundingChunks *)
(* (absent, or chunks whose web.uri and web.title may be absent) and text     *)
GroundingChunks == {[uri |-> Null, title |-> Null],
                    [uri |-> Some(<<>>), title |-> Some(<<"E">>)],
                    [uri |-> Some(<<"u", "1">>), title |-> Null],
                    [uri |-> Some(<<"u", "2">>), title |-> Some(<<"T">>)]}

SearchResponses ==
    [chunks : {Null} \cup {Some(<<>>)} \cup {Some(<<c>>) : c \in GroundingChunks}
                \cup {Some(<<[uri |-> Null, title |-> Null], c>>) : c \in GroundingChunks},
     text : {Null, Some(<<"d">>)}]

(* the index of the first chunk with a truthy web.uri, 0 when there is none *)
FirstLinked(chunks) ==
    IF \E i \in DOMAIN chunks : Truthy(chunks[i].uri)
      THEN CHOOSE i \in DOMAIN chunks :
             /\ Truthy(chunks[i].uri)
             /\ \A j \in 1..(i - 1) : ~Truthy(chunks[j].uri)
      ELSE 0

findExternalBookResource(query, response) ==
    LET chunks == IF response.chunks = Null THEN <<>> ELSE response.chunks[1]
        hit == FirstLinked(chunks)
        link == IF hit = 0 THEN Null ELSE chunks[hit].uri
        title == IF hit = 0 THEN Null ELSE chunks[hit].title
    IN [found |-> link # Null,
        title |-> IF Truthy(title) THEN title[1] ELSE query,
        link |-> link,
        description |-> IF Truthy(response.text) THEN response.text[1] ELSE NoDescription]

----------------------------------------------------------------------------
(* LibraryView *)

MaxSearchCalls == 2

MaxAddedBooks == 1

PhysicsI == <<"P", "h", "y", "s", "i", "c", "s", " ", "I">>

WorldHistory == <<"W", "o", "r", "l", "d", " ", "H", "i", "s", "t", "o", "r", "y">>

QuantumBiology == <<"Q", "u", "a", "n", "t", "u", "m", " ", "B", "i", "o", "l", "o", "g", "y">>

SearchQueries == {<<>>, <<"p", "h", "y", "s">>, <<"H", "I", "S", "T">>, <<"z", "z", "z">>, <<"z", "z", "z", "z">>, QuantumBiology}

BookTitlePrompts == {Cancelled, Typed(<<>>), Typed(QuantumBiology)}

SeedBooks == <<[id |-> "1", title |-> PhysicsI], [id |-> "2", title |-> WorldHistory]>>

(* the useState initial values of LibraryView *)
FreshLibrary ==
    [searchQuery |-> <<>>, books |-> SeedBooks, searching |-> FALSE,
     externalLink |-> Null]

InitLibrary ==
    /\ library = FreshLibrary
    /\ libraryCalls = <<>>

(* books.filter(b => b.title.toLowerCase().includes(searchQuery.toLowerCase())) *)
localResults(books, searchQuery) ==
    SelectSeq(books, LAMBDA b : includes(toLowerCase(b.title), toLowerCase(searchQuery)))

(* search input onChange *)
setSearchQuery(q) ==
    /\ library' = [library EXCEPT !.searchQuery = q]
    /\ lastOp' = Op("setSearchQuery", 0, <<>>, NoAlert)
    /\ UNCHANGED <<notLibrary, libraryCalls>>

(* handleSearch falling through to the provider from 3 characters on *)
handleSearchMutant ==
    /\ IF Len(localResults(library.books, library.searchQuery)) = 0
          /\ Len(library.searchQuery) >= 3
         THEN /\ Len(libraryCalls) < MaxSearchCalls
              /\ library' = [library EXCEPT !.externalLink = Null, !.searching = TRUE]
              /\ libraryCalls' = Append(libraryCalls,
                                        [query |-> library.searchQuery, pending |-> TRUE])
         ELSE /\ library' = [library EXCEPT !.externalLink = Null]
              /\ UNCHANGED libraryCalls
    /\ lastOp' = Op("handleSearch", 0, <<>>, NoAlert)
    /\ UNCHANGED notLibrary

(* LibraryView.handleSearch up to the await; Enter in the search input calls it *)
handleSearch ==
    /\ IF Len(localResults(library.books, library.searchQuery)) = 0
          /\ Len(library.searchQuery) > 3
         THEN /\ Len(libraryCalls) < MaxSearchCalls
              /\ library' = [library EXCEPT !.externalLink = Null, !.searching = TRUE]
              /\ libraryCalls' = Append(libraryCalls,
                                        [query |-> library.searchQuery, pending |-> TRUE])
         ELSE /\ library' = [library EXCEPT !.externalLink = Null]
              /\ UNCHANGED libraryCalls
    /\ lastOp' = Op("handleSearch", 0, <<>>, NoAlert)
    /\ UNCHANGED notLibrary

(* findExternalBookResource resolves for call c: try block, then finally *)
handleSearchResolved(c, response) ==
    /\ c \in DOMAIN libraryCalls
    /\ libraryCalls[c].pending
    /\ libraryCalls' = [libraryCalls EXCEPT ![c].pending = FALSE]
    /\ LET res == findExternalBookResource(libraryCalls[c].query, response) IN
       library' = [library EXCEPT
                     !.externalLink = IF res.found
                                        THEN Some([title |-> res.title, link |-> res.link,
                                                   description |-> res.description])
                                        ELSE @,
                     !.searching = FALSE]
    /\ lastOp' = Answered(Op("handleSearchResolved", c, <<>>, NoAlert), response)
    /\ UNCHANGED notLibrary

(* findExternalBookResource rejects for call c: empty catch, then finally *)
handleSearchRejected(c) ==
    /\ c \in DOMAIN libraryCalls
    /\ libraryCalls[c].pending
    /\ libraryCalls' = [libraryCalls EXCEPT ![c].pending = FALSE]
    /\ library' = [library EXCEPT !.searching = FALSE]
    /\ lastOp' = Op("handleSearchRejected", c, <<>>, NoAlert)
    /\ UNCHANGED notLibrary

(* LibraryView.handleAddBook; the button is rendered in admin mode only.   *)
(* The id of the new book, Date.now().toString(), is not a seed id.        *)
handleAddBook(title) ==
    /\ Len(library.books) < Len(SeedBooks) + MaxAddedBooks
    /\ IF ~app.isAdminMode
         THEN UNCHANGED library /\ lastOp' = Op("handleAddBook", 0, <<>>, NoAlert)
         ELSE /\ IF ~title.cancelled /\ title.text # <<>>
                   THEN library' = [library EXCEPT
                                      !.books = Append(@, [id |-> "now", title |-> title.text])]
                   ELSE UNCHANGED library
              /\ lastOp' = Op("handleAddBook", 0, <<title>>, NoAlert)
    /\ UNCHANGED <<notLibrary, libraryCalls>>

----------------------------------------------------------------------------
(* FlashcardView.  A card is an object; cards and the arrays the pending    *)
(* loadImg closures hold are sequences of references into cardObjects,      *)
(* because [...cards] copies the references and the assignment to           *)
(* updatedCards[currentIndex].generatedImage writes to the shared object.   *)
(* State updates made in one continuation are rendered together.            *)

MaxCards == 2

MaxGenerations == 2

MaxIllustrations == 2

FlashcardTopics == {<<>>, <<"t">>}

FlashcardsAlert == "Failed to generate cards."

(* Flashcard.imageKeyword is optional *)
ImageKeywords == {Null, Some(<<"k">>)}

(* JSON.parse(response.text), or [] when the response has no text: the     *)
(* imageKeyword of each card; the cards before the last one have a keyword  *)
FlashcardPayloads ==
    {newCards \in UNION {[1..n -> ImageKeywords] : n \in 0..MaxCards} :
        \A i \in 1..(Len(newCards) - 1) : newCards[i] # Null}

(* the useState initial values of FlashcardView *)
FreshFlashcards ==
    [topic |-> <<>>, cards |-> <<>>, currentIndex |-> 0,
     isFlipped |-> FALSE, isLoading |-> FALSE]

InitFlashcards ==
    /\ flashcards = FreshFlashcards
    /\ cardObjects = <<>>
    /\ flashcardCalls = <<>>
    /\ illustrationCalls = <<>>
    /\ renderThrew = FALSE

(* JSX: the card and the controls are rendered when cards.length > 0 *)
CardShown == ~renderThrew /\ Len(flashcards.cards) > 0

(* the render reads cards[currentIndex].generatedImage when cards.length > 0 *)
Renders(cards, currentIndex) == Len(cards) = 0 \/ currentIndex + 1 \in DOMAIN cards

(* what the provider does for generateIllustration: generateContent       *)
(* throws, or it answers with the parts of candidates[0].content, none     *)
(* when a link of that chain is absent; a part has inlineData or has not   *)
IllustrationOutcomes ==
    {[threw |-> TRUE, parts |-> <<>>],
     [threw |-> FALSE, parts |-> <<>>],
     [threw |-> FALSE,
      parts |-> <<[inlineData |-> Null],
                  [inlineData |-> Some([mimeType |-> "image/png", data |-> "AAAA"])]>>]}

(* the index of the first part with inlineData, 0 when there is none *)
FirstInline(parts) ==
    IF \E i \in DOMAIN parts : parts[i].inlineData # Null
      THEN CHOOSE i \in DOMAIN parts :
             /\ parts[i].inlineData # Null
             /\ \A j \in 1..(i - 1) : parts[j].inlineData = Null
      ELSE 0

(* generateIllustration: the data URI of the first part with inlineData;   *)
(* undefined when there is none and when the call threw, which the catch   *)
(* logs                                                                    *)
generateIllustration(outcome) ==
    IF outcome.threw \/ FirstInline(outcome.parts) = 0
      THEN Null
      ELSE LET inlineData == outcome.parts[FirstInline(outcome.parts)].inlineData[1]
           IN Some(<<"data:", inlineData.mimeType, ";base64,", inlineData.data>>)

(* a generateIllustration call that has returned: its closure is gone; card *)
(* remains, the card whose imageKeyword was passed to it                    *)
Returned(call) == [cards |-> <<>>, currentIndex |-> 0, card |-> call.card, state |-> "returned"]

(* the effect on [currentIndex, cards]: loadImg up to the await; gives the  *)
(* calls after it ran                                                       *)
loadImg(cards, currentIndex, objects, calls) ==
    IF /\ Len(cards) > 0
       /\ currentIndex + 1 \in DOMAIN cards
       /\ objects[cards[currentIndex + 1]].generatedImage = Null
       /\ Truthy(objects[cards[currentIndex + 1]].imageKeyword)
      THEN Append(calls, [cards |-> cards, currentIndex |-> currentIndex,
                          card |-> cards[currentIndex + 1], state |-> "pending"])
      ELSE calls

(* topic input onChange *)
setFlashcardTopic(t) ==
    /\ ~renderThrew
    /\ flashcards' = [flashcards EXCEPT !.topic = t]
    /\ lastOp' = Op("setTopic", 0, <<>>, NoAlert)
    /\ UNCHANGED <<notFlashcards, cardObjects, flashcardCalls, illustrationCalls, renderThrew>>

(* FlashcardView.handleGenerate up to the await; the button is disabled while isLoading *)
handleGenerate ==
    /\ ~renderThrew
    /\ ~flashcards.isLoading
    /\ IF flashcards.topic = <<>>
         THEN UNCHANGED <<flashcards, flashcardCalls>>
         ELSE /\ Len(flashcardCalls) < MaxGenerations
              /\ flashcards' = [flashcards EXCEPT !.isLoading = TRUE]
              /\ flashcardCalls' = Append(flashcardCalls, "pending")
    /\ lastOp' = Op("handleGenerate", 0, <<>>, NoAlert)
    /\ UNCHANGED <<notFlashcards, cardObjects, illustrationCalls, renderThrew>>

(* generateFlashcards resolves: try block of handleGenerate, finally, and   *)
(* the effect that follows the render                                       *)
handleGenerateResolved(c, newCards) ==
    /\ ~renderThrew
    /\ c \in DOMAIN flashcardCalls
    /\ flashcardCalls[c] = "pending"
    /\ flashcardCalls' = [flashcardCalls EXCEPT ![c] = "resolved"]
    /\ LET objects == cardObjects \o
                      [i \in 1..Len(newCards) |->
                          [front |-> <<c, i>>, imageKeyword |-> newCards[i], generatedImage |-> Null]]
           cards == [i \in 1..Len(newCards) |-> Len(cardObjects) + i]
       IN /\ cardObjects' = objects
          /\ flashcards' = [flashcards EXCEPT !.cards = cards, !.currentIndex = 0,
                                              !.isFlipped = FALSE, !.isLoading = FALSE]
          /\ illustrationCalls' = loadImg(cards, 0, objects, illustrationCalls)
    /\ Len(illustrationCalls') <= MaxIllustrations
    /\ lastOp' = Op("handleGenerateResolved", 0, <<>>, NoAlert)
    /\ UNCHANGED <<notFlashcards, renderThrew>>

(* generateFlashcards rejects (transport failure, JSON.parse throws): catch, then finally *)
handleGenerateRejected(c) ==
    /\ ~renderThrew
    /\ c \in DOMAIN flashcardCalls
    /\ flashcardCalls[c] = "pending"
    /\ flashcardCalls' = [flashcardCalls EXCEPT ![c] = "rejected"]
    /\ flashcards' = [flashcards EXCEPT !.isLoading = FALSE]
    /\ lastOp' = Op("handleGenerateRejected", 0, <<>>, FlashcardsAlert)
    /\ UNCHANGED <<notFlashcards, cardObjects, illustrationCalls, renderThrew>>

(* FlashcardView.handleFlip *)
handleFlip ==
    /\ CardShown
    /\ flashcards' = [flashcards EXCEPT !.isFlipped = ~flashcards.isFlipped]
    /\ lastOp' = Op("handleFlip", 0, <<>>, NoAlert)
    /\ UNCHANGED <<notFlashcards, cardObjects, flashcardCalls, illustrationCalls, renderThrew>>

(* what a change of currentIndex to index does: the state is set and the    *)
(* effect runs again when currentIndex is another value than before         *)
setCurrentIndex(index) ==
    /\ flashcards' = [flashcards EXCEPT !.isFlipped = FALSE, !.currentIndex = index]
    /\ illustrationCalls' =
          IF index = flashcards.currentIndex
            THEN illustrationCalls
            ELSE loadImg(flashcards.cards, index, cardObjects, illustrationCalls)
    /\ Len(illustrationCalls') <= MaxIllustrations
    /\ UNCHANGED <<notFlashcards, cardObjects, flashcardCalls, renderThrew>>

(* handleNext that stops at the last card instead of going round *)
handleNextMutant ==
    /\ CardShown
    /\ setCurrentIndex(IF flashcards.currentIndex + 1 < Len(flashcards.cards)
                         THEN flashcards.currentIndex + 1
                         ELSE flashcards.currentIndex)
    /\ lastOp' = Op("handleNext", flashcards.currentIndex, <<>>, NoAlert)

(* FlashcardView.handleNext; lastOp.n is the index it started from *)
handleNext ==
    /\ CardShown
    /\ setCurrentIndex((flashcards.currentIndex + 1) % Len(flashcards.cards))
    /\ lastOp' = Op("handleNext", flashcards.currentIndex, <<>>, NoAlert)

(* FlashcardView.handlePrev; lastOp.n is the index it started from *)
handlePrev ==
    /\ CardShown
    /\ setCurrentIndex((flashcards.currentIndex - 1 + Len(flashcards.cards)) % Len(flashcards.cards))
    /\ lastOp' = Op("handlePrev", flashcards.currentIndex, <<>>, NoAlert)

(* loadImg that gives the image to the card that is current when the call   *)
(* returns                                                                  *)
generateIllustrationReturnedMutant(c, outcome) ==
    /\ CardShown
    /\ c \in DOMAIN illustrationCalls
    /\ illustrationCalls[c].state = "pending"
    /\ illustrationCalls' = [illustrationCalls EXCEPT ![c] = Returned(illustrationCalls[c])]
    /\ IF generateIllustration(outcome) # Null
         THEN cardObjects' = [cardObjects EXCEPT
                                 ![flashcards.cards[flashcards.currentIndex + 1]].generatedImage = Some(c)]
         ELSE UNCHANGED cardObjects
    /\ lastOp' = Answered(Op("generateIllustrationReturned", c, <<>>, NoAlert), outcome)
    /\ UNCHANGED <<notFlashcards, flashcards, flashcardCalls, renderThrew>>

(* generateIllustration returns to loadImg: with an image (a data URI is a  *)
(* non-empty string), the object at                                         *)
(* the index loadImg started with gets it and the array loadImg started     *)
(* with becomes cards; the render that follows throws when currentIndex is  *)
(* outside that array, and otherwise the effect runs again.  Without an     *)
(* image (no inlineData, or the call failed) nothing is set.                *)
generateIllustrationReturned(c, outcome) ==
    /\ ~renderThrew
    /\ c \in DOMAIN illustrationCalls
    /\ illustrationCalls[c].state = "pending"
    /\ LET call == illustrationCalls[c]
           calls == [illustrationCalls EXCEPT ![c] = Returned(call)]
           imgData == generateIllustration(outcome)
       IN IF imgData # Null
            THEN LET objects == [cardObjects EXCEPT
                                    ![call.cards[call.currentIndex + 1]].generatedImage = Some(c)]
                 IN /\ cardObjects' = objects
                    /\ flashcards' = [flashcards EXCEPT !.cards = call.cards]
                    /\ IF Renders(call.cards, flashcards.currentIndex)
                         THEN /\ illustrationCalls' =
                                    loadImg(call.cards, flashcards.currentIndex, objects, calls)
                              /\ renderThrew' = FALSE
                         ELSE /\ illustrationCalls' = calls
                              /\ renderThrew' = TRUE
            ELSE /\ illustrationCalls' = calls
                 /\ UNCHANGED <<flashcards, cardObjects, renderThrew>>
    /\ Len(illustrationCalls') <= MaxIllustrations
    /\ lastOp' = Answered(Op("generateIllustrationReturned", c, <<>>, NoAlert), outcome)
    /\ UNCHANGED <<notFlashcards, flashcardCalls>>

----------------------------------------------------------------------------
(* PlannerView.  The timer effect depends on [isTimerRunning, timerSeconds, *)
(* timerMode]: every handler that changes one of them is followed by the    *)
(* cleanup of the effect's last run and by a new run of the effect.         *)

MaxPlans == 2

WorkMinutes == 25

BreakMinutes == 5

SecondsPerMinute == 60

WorkAlert == "Focus session complete! Take a break."

BreakAlert == "Break over! Back to work."

PlannerAlert == "Could not generate schedule."

(* `Time for: ${session.activity}` *)
NotifyAlert(session) == IF session.activity = "study" THEN "Time for: study" ELSE "Time for: rest"

PlannerInputs == {<<>>, <<"m">>}

(* two of the five keys of sounds *)
Sounds == {"beep", "alarm"}

(* JSON.parse(response.text), or [] when the response has no text *)
SchedulePayloads == {<<>>, <<[activity |-> "study"]>>, <<[activity |-> "study"], [activity |-> "rest"]>>}

(* the useState initial values of PlannerView *)
FreshPlanner ==
    [input |-> <<>>, schedule |-> <<>>, isLoading |-> FALSE,
     notificationSound |-> "beep", timerSeconds |-> 0,
     isTimerRunning |-> FALSE, timerMode |-> "work"]

InitPlanner ==
    /\ planner = FreshPlanner
    /\ plannerCalls = [issued |-> 0, pending |-> 0]
    /\ plannerInterval = Null
    /\ plannerIntervals = {}
    /\ timerLog = [preset |-> 0, ticks |-> 0, alerts |-> 0]

(* setInterval returns an id no live interval has *)
setInterval(live) == CHOOSE id \in 1..(Cardinality(live) + 1) : id \notin live

(* return () => clearInterval(interval): what is left of the live intervals *)
clearInterval(interval) == {id \in plannerIntervals : interval # Some(id)}

(* the body of the timer effect for the rendered isTimerRunning,            *)
(* timerSeconds and timerMode, after the cleanup of its last run: the       *)
(* interval it holds, the live intervals, the isTimerRunning it leaves and  *)
(* the alert it raises.  After setIsTimerRunning(false) the effect runs     *)
(* once more and takes neither branch.                                      *)
timerEffect(isTimerRunning, timerSeconds, timerMode) ==
    LET live == clearInterval(plannerInterval)
    IN IF isTimerRunning /\ timerSeconds > 0
         THEN [interval |-> Some(setInterval(live)), intervals |-> live \cup {setInterval(live)},
               isTimerRunning |-> TRUE, alert |-> NoAlert]
         ELSE IF timerSeconds = 0 /\ isTimerRunning
                THEN [interval |-> Null, intervals |-> live, isTimerRunning |-> FALSE,
                      alert |-> IF timerMode = "work" THEN WorkAlert ELSE BreakAlert]
                ELSE [interval |-> Null, intervals |-> live, isTimerRunning |-> isTimerRunning,
                      alert |-> NoAlert]

(* a timer effect whose cleanup clears nothing *)
timerEffectMutant(isTimerRunning, timerSeconds, timerMode) ==
    IF isTimerRunning /\ timerSeconds > 0
      THEN [interval |-> Some(setInterval(plannerIntervals)),
            intervals |-> plannerIntervals \cup {setInterval(plannerIntervals)},
            isTimerRunning |-> TRUE, alert |-> NoAlert]
      ELSE IF timerSeconds = 0 /\ isTimerRunning
             THEN [interval |-> Null, intervals |-> plannerIntervals, isTimerRunning |-> FALSE,
                   alert |-> IF timerMode = "work" THEN WorkAlert ELSE BreakAlert]
             ELSE [interval |-> Null, intervals |-> plannerIntervals,
                   isTimerRunning |-> isTimerRunning, alert |-> NoAlert]

(* the render and the effect that follow a change of the timer's state *)
timerRendered(effect, timerSeconds, timerMode, log, op, n) ==
    /\ planner' = [planner EXCEPT !.timerSeconds = timerSeconds, !.timerMode = timerMode,
                                  !.isTimerRunning = effect.isTimerRunning]
    /\ plannerInterval' = effect.interval
    /\ plannerIntervals' = effect.intervals
    /\ timerLog' = [log EXCEPT !.alerts = IF effect.alert # NoAlert THEN @ + 1 ELSE @]
    /\ lastOp' = Op(op, n, <<>>, effect.alert)
    /\ UNCHANGED <<notPlanner, plannerCalls>>

(* planner input onChange *)
setPlannerInput(v) ==
    /\ planner' = [planner EXCEPT !.input = v]
    /\ lastOp' = Op("setInput", 0, <<>>, NoAlert)
    /\ UNCHANGED <<notPlanner, plannerCalls, plannerInterval, plannerIntervals, timerLog>>

(* notification sound select onChange *)
setNotificationSound(sound) ==
    /\ planner' = [planner EXCEPT !.notificationSound = sound]
    /\ lastOp' = Op("setNotificationSound", 0, <<>>, NoAlert)
    /\ UNCHANGED <<notPlanner, plannerCalls, plannerInterval, plannerIntervals, timerLog>>

(* PlannerView.handleGenerate up to the await; the button is disabled while isLoading *)
handleGenerateSchedule ==
    /\ ~planner.isLoading
    /\ IF planner.input = <<>>
         THEN UNCHANGED <<planner, plannerCalls>>
         ELSE /\ plannerCalls.issued < MaxPlans
              /\ planner' = [planner EXCEPT !.isLoading = TRUE]
              /\ plannerCalls' = [issued |-> plannerCalls.issued + 1,
                                  pending |-> plannerCalls.pending + 1]
    /\ lastOp' = Op("handleGenerateSchedule", 0, <<>>, NoAlert)
    /\ UNCHANGED <<notPlanner, plannerInterval, plannerIntervals, timerLog>>

(* generateStudySchedule resolves: try block of handleGenerate, then finally *)
handleGenerateScheduleResolved(newSchedule) ==
    /\ plannerCalls.pending > 0
    /\ plannerCalls' = [plannerCalls EXCEPT !.pending = @ - 1]
    /\ planner' = [planner EXCEPT !.schedule = newSchedule, !.isLoading = FALSE]
    /\ lastOp' = Op("handleGenerateScheduleResolved", 0, <<>>, NoAlert)
    /\ UNCHANGED <<notPlanner, plannerInterval, plannerIntervals, timerLog>>

(* a catch that also drops the schedule *)
handleGenerateScheduleRejectedMutant ==
    /\ plannerCalls.pending > 0
    /\ plannerCalls' = [plannerCalls EXCEPT !.pending = @ - 1]
    /\ planner' = [planner EXCEPT !.isLoading = FALSE, !.schedule = <<>>]
    /\ lastOp' = Op("handleGenerateScheduleRejected", 0, <<>>, PlannerAlert)
    /\ UNCHANGED <<notPlanner, plannerInterval, plannerIntervals, timerLog>>

(* generateStudySchedule rejects (transport failure, JSON.parse throws): catch, then finally *)
handleGenerateScheduleRejected ==
    /\ plannerCalls.pending > 0
    /\ plannerCalls' = [plannerCalls EXCEPT !.pending = @ - 1]
    /\ planner' = [planner EXCEPT !.isLoading = FALSE]
    /\ lastOp' = Op("handleGenerateScheduleRejected", 0, <<>>, PlannerAlert)
    /\ UNCHANGED <<notPlanner, plannerInterval, plannerIntervals, timerLog>>

(* PlannerView.notify, from the bell of a session of the schedule *)
notify(i) ==
    /\ i \in DOMAIN planner.schedule
    /\ lastOp' = Op("notify", 0, <<>>, NotifyAlert(planner.schedule[i]))
    /\ UNCHANGED <<notPlanner, plannerVars>>

(* startTimer that takes the minutes for seconds *)
startTimerMutant(minutes, mode) ==
    /\ ~planner.isTimerRunning
    /\ timerRendered(timerEffect(TRUE, minutes, mode), minutes, mode,
                     [preset |-> minutes * SecondsPerMinute, ticks |-> 0, alerts |-> 0],
                     "startTimer", IF planner.timerSeconds > 0 THEN 1 ELSE 0)

(* PlannerView.startTimer; its buttons are shown while the timer is not     *)
(* running.  lastOp.n is 1 when seconds were left from the timer before.    *)
startTimer(minutes, mode) ==
    /\ ~planner.isTimerRunning
    /\ timerRendered(timerEffect(TRUE, minutes * SecondsPerMinute, mode),
                     minutes * SecondsPerMinute, mode,
                     [preset |-> minutes * SecondsPerMinute, ticks |-> 0, alerts |-> 0],
                     "startTimer", IF planner.timerSeconds > 0 THEN 1 ELSE 0)

(* Stop button onClick: setIsTimerRunning(false); shown while the timer is running *)
stopTimer ==
    /\ planner.isTimerRunning
    /\ timerRendered(timerEffect(FALSE, planner.timerSeconds, planner.timerMode),
                     planner.timerSeconds, planner.timerMode, timerLog, "stopTimer", 0)

(* the callback of a live interval whose effect is not cleaned up afterwards *)
intervalFiredMutant(id) ==
    /\ id \in plannerIntervals
    /\ timerRendered(timerEffectMutant(planner.isTimerRunning, planner.timerSeconds - 1, planner.timerMode),
                     planner.timerSeconds - 1, planner.timerMode,
                     [timerLog EXCEPT !.ticks = @ + 1], "intervalFired", 0)

(* the callback of a live interval, a second after setInterval:             *)
(* setTimerSeconds(s => s - 1), and the effect that follows                 *)
intervalFired(id) ==
    /\ id \in plannerIntervals
    /\ timerRendered(timerEffect(planner.isTimerRunning, planner.timerSeconds - 1, planner.timerMode),
                     planner.timerSeconds - 1, planner.timerMode,
                     [timerLog EXCEPT !.ticks = @ + 1], "intervalFired", 0)

----------------------------------------------------------------------------
(* Provider: summarizeText, analyzeHandwriting.  response.text is absent, *)
(* empty or a text.                                                        *)

ResponseTexts == {Null, Some(""), Some("text")}

(* a summarizeText that returns response.text as it is, "" when absent *)
summarizeTextMutant(text) == IF text = Null THEN "" ELSE text[1]

(* response.text || "Unable to summarize." *)
summarizeText(text) == IF text = Null \/ text = Some("") THEN "Unable to summarize." ELSE text[1]

(* response.text || "Could not analyze image." *)
analyzeHandwriting(text) == IF text = Null \/ text = Some("") THEN "Could not analyze image." ELSE text[1]

----------------------------------------------------------------------------
(* ContributeView: the summarizer and the notes.  The id of a note is      *)
(* Date.now().toString(), compared here as the number itself.              *)

MaxSummaries == 2

MaxNotes == 2

NoteTitles == {"", "a", "b"}

NoteContents == {"", "c"}

SummarizeInputs == {"", "passage"}

SummarizeError == "Error summarizing text."

(* the useState initial values of ContributeView *)
FreshContribute ==
    [notes |-> <<>>, title |-> "", content |-> "", summarizeInput |-> "",
     summary |-> "", isSummarizing |-> FALSE, isEditing |-> Null]

InitContribute ==
    /\ contribute = FreshContribute
    /\ contributeCalls = [issued |-> 0, pending |-> 0]

(* summarizer textarea onChange *)
setSummarizeInput(v) ==
    /\ contribute' = [contribute EXCEPT !.summarizeInput = v]
    /\ lastOp' = Op("setSummarizeInput", 0, <<>>, NoAlert)
    /\ UNCHANGED <<notContribute, contributeCalls>>

(* ContributeView.handleSummarize up to the await; the button is disabled while isSummarizing *)
handleSummarize ==
    /\ ~contribute.isSummarizing
    /\ IF contribute.summarizeInput = ""
         THEN UNCHANGED <<contribute, contributeCalls>>
         ELSE /\ contributeCalls.issued < MaxSummaries
              /\ contribute' = [contribute EXCEPT !.isSummarizing = TRUE]
              /\ contributeCalls' = [issued |-> contributeCalls.issued + 1,
                                     pending |-> contributeCalls.pending + 1]
    /\ lastOp' = Op("handleSummarize", 0, <<>>, NoAlert)
    /\ UNCHANGED notContribute

(* summarizeText resolves: try block of handleSummarize, then finally *)
handleSummarizeResolved(text) ==
    /\ contributeCalls.pending > 0
    /\ contributeCalls' = [contributeCalls EXCEPT !.pending = @ - 1]
    /\ contribute' = [contribute EXCEPT !.summary = summarizeText(text), !.isSummarizing = FALSE]
    /\ lastOp' = Answered(Op("handleSummarizeResolved", 0, <<>>, NoAlert), text)
    /\ UNCHANGED notContribute

(* summarizeText rejects: catch of handleSummarize, then finally *)
handleSummarizeRejected ==
    /\ contributeCalls.pending > 0
    /\ contributeCalls' = [contributeCalls EXCEPT !.pending = @ - 1]
    /\ contribute' = [contribute EXCEPT !.summary = SummarizeError, !.isSummarizing = FALSE]
    /\ lastOp' = Op("handleSummarizeRejected", 0, <<>>, NoAlert)
    /\ UNCHANGED notContribute

(* note title input onChange *)
setTitle(v) ==
    /\ contribute' = [contribute EXCEPT !.title = v]
    /\ lastOp' = Op("setTitle", 0, <<>>, NoAlert)
    /\ UNCHANGED <<notContribute, contributeCalls>>

(* note content textarea onChange *)
setContent(v) ==
    /\ contribute' = [contribute EXCEPT !.content = v]
    /\ lastOp' = Op("setContent", 0, <<>>, NoAlert)
    /\ UNCHANGED <<notContribute, contributeCalls>>

(* notes.filter(n => n.id !== id) *)
withoutId(notes, id) == SelectSeq(notes, LAMBDA n : n.id # id)

(* ContributeView.handleAdd; waited is the time that has passed since the  *)
(* clock was last read                                                     *)
handleAdd(waited) ==
    /\ IF contribute.title = "" \/ contribute.content = ""
         THEN UNCHANGED <<contribute, now>>
         ELSE /\ Len(contribute.notes) < MaxNotes
              /\ now + waited <= Epoch + MaxTicks
              /\ now' = now + waited
              /\ contribute' = [contribute EXCEPT
                                  !.notes = <<[id |-> now + waited, title |-> contribute.title,
                                               content |-> contribute.content]>> \o @,
                                  !.title = "", !.content = "", !.isEditing = Null]
    /\ lastOp' = Op("handleAdd", 0, <<>>, NoAlert)
    /\ UNCHANGED <<appVars, loginVars, quizVars, libraryVars, chat, chatTurns, flashcardVars,
                   plannerVars, whiteboardVars, contributeCalls>>

(* ContributeView.handleDelete, from the delete button of the i-th note *)
handleDelete(i) ==
    /\ i \in DOMAIN contribute.notes
    /\ contribute' = [contribute EXCEPT !.notes = withoutId(@, contribute.notes[i].id)]
    /\ lastOp' = Op("handleDelete", i, <<>>, NoAlert)
    /\ UNCHANGED <<notContribute, contributeCalls>>

(* a handleEdit whose button is rendered for everybody *)
handleEditMutant(i) ==
    /\ i \in DOMAIN contribute.notes
    /\ LET note == contribute.notes[i] IN
       contribute' = [contribute EXCEPT !.title = note.title, !.content = note.content,
                                        !.isEditing = Some(note.id),
                                        !.notes = withoutId(@, note.id)]
    /\ lastOp' = Op("handleEdit", i, <<>>, NoAlert)
    /\ UNCHANGED <<notContribute, contributeCalls>>

(* ContributeView.handleEdit, from the edit button of the i-th note, which *)
(* is rendered in admin mode only                                          *)
handleEdit(i) ==
    /\ app.isAdminMode
    /\ i \in DOMAIN contribute.notes
    /\ LET note == contribute.notes[i] IN
       contribute' = [contribute EXCEPT !.title = note.title, !.content = note.content,
                                        !.isEditing = Some(note.id),
                                        !.notes = withoutId(@, note.id)]
    /\ lastOp' = Op("handleEdit", i, <<>>, NoAlert)
    /\ UNCHANGED <<notContribute, contributeCalls>>

----------------------------------------------------------------------------
(* WhiteboardView.  The canvas is in the document while the view is        *)
(* mounted, so canvasRef.current is set in every handler.                  *)

MaxAnalyses == 2

AnalyzeError == "Failed to analyze."

(* the useState initial values of WhiteboardView *)
FreshWhiteboard ==
    [isDrawing |-> FALSE, analysis |-> "", isAnalyzing |-> FALSE, ink |-> FALSE]

InitWhiteboard ==
    /\ whiteboard = FreshWhiteboard
    /\ whiteboardCalls = [issued |-> 0, pending |-> 0]

(* canvas onMouseDown, onTouchStart *)
startDrawing ==
    /\ whiteboard' = [whiteboard EXCEPT !.isDrawing = TRUE]
    /\ lastOp' = Op("startDrawing", 0, <<>>, NoAlert)
    /\ UNCHANGED <<notWhiteboard, whiteboardCalls>>

(* canvas onMouseMove, onTouchMove *)
draw ==
    /\ whiteboard' = [whiteboard EXCEPT !.ink = @ \/ whiteboard.isDrawing]
    /\ lastOp' = Op("draw", 0, <<>>, NoAlert)
    /\ UNCHANGED <<notWhiteboard, whiteboardCalls>>

(* canvas onMouseUp, onMouseLeave, onTouchEnd *)
stopDrawing ==
    /\ whiteboard' = [whiteboard EXCEPT !.isDrawing = FALSE]
    /\ lastOp' = Op("stopDrawing", 0, <<>>, NoAlert)
    /\ UNCHANGED <<notWhiteboard, whiteboardCalls>>

(* WhiteboardView.clearBoard *)
clearBoard ==
    /\ whiteboard' = [whiteboard EXCEPT !.ink = FALSE, !.analysis = ""]
    /\ lastOp' = Op("clearBoard", 0, <<>>, NoAlert)
    /\ UNCHANGED <<notWhiteboard, whiteboardCalls>>

(* WhiteboardView.handleAnalyze up to the await; the button is disabled while isAnalyzing *)
handleAnalyze ==
    /\ ~whiteboard.isAnalyzing
    /\ whiteboardCalls.issued < MaxAnalyses
    /\ whiteboard' = [whiteboard EXCEPT !.isAnalyzing = TRUE]
    /\ whiteboardCalls' = [issued |-> whiteboardCalls.issued + 1,
                           pending |-> whiteboardCalls.pending + 1]
    /\ lastOp' = Op("handleAnalyze", 0, <<>>, NoAlert)
    /\ UNCHANGED notWhiteboard

(* analyzeHandwriting resolves: try block of handleAnalyze, then finally *)
handleAnalyzeResolved(text) ==
    /\ whiteboardCalls.pending > 0
    /\ whiteboardCalls' = [whiteboardCalls EXCEPT !.pending = @ - 1]
    /\ whiteboard' = [whiteboard EXCEPT !.analysis = analyzeHandwriting(text), !.isAnalyzing = FALSE]
    /\ lastOp' = Answered(Op("handleAnalyzeResolved", 0, <<>>, NoAlert), text)
    /\ UNCHANGED notWhiteboard

(* analyzeHandwriting rejects: catch of handleAnalyze, then finally *)
handleAnalyzeRejected ==
    /\ whiteboardCalls.pending > 0
    /\ whiteboardCalls' = [whiteboardCalls EXCEPT !.pending = @ - 1]
    /\ whiteboard' = [whiteboard EXCEPT !.analysis = AnalyzeError, !.isAnalyzing = FALSE]
    /\ lastOp' = Op("handleAnalyzeRejected", 0, <<>>, NoAlert)
    /\ UNCHANGED notWhiteboard

----------------------------------------------------------------------------
(* Session store: App, LoginView, Header, BottomNav, SettingsView.  App     *)
(* renders LoginView while no user is logged in, SettingsView when          *)
(* currentView is SETTINGS, and otherwise the one mode view currentView     *)
(* names: the component of any other view is not mounted.                   *)

OwnerEmail == "agdealers8@gmail.com"

OwnerPassword == "ag12de34"

DeniedAlert == "Incorrect Password. Access Denied."

FillAlert == "Please fill all fields to continue."

Views == {"HOME", "CHAT", "FLASHCARDS", "QUIZ", "CONTRIBUTE", "SETTINGS",
          "PLANNER", "LIBRARY", "WHITEBOARD"}

NavItems == {"HOME", "PLANNER", "FLASHCARDS", "QUIZ", "CONTRIBUTE"}

HomeButtons == {"CHAT", "PLANNER", "LIBRARY", "WHITEBOARD"}

Languages == {"English", "Urdu"}

(* the values of the options of the grade select *)
GradeOptions == {"", "Class 9", "Class 10", "Inter Part 1 (11th)", "Inter Part 2 (12th)",
                 "Undergraduate", "Other"}

(* inputs typed into the forms *)
Names == {"Ada"}

Emails == {OwnerEmail, "student@example.com"}

Profiles == [country : {"Pakistan"}, province : {"Punjab"},
             syllabus : {"Punjab Textbook Board"}, userLevel : {"Class 9", "Other"}]

PromptInputs == {Cancelled, Typed(""), Typed(OwnerPassword), Typed("ag12de3"), Typed("AG12DE34")}

NoUser == [name |-> "", email |-> "", isLoggedIn |-> FALSE]

InitApp ==
    app = [user |-> NoUser,
           currentView |-> "HOME",
           settings |-> [language |-> "English", syllabus |-> "", userLevel |-> "High School",
                         country |-> "", province |-> ""],
           isAdminMode |-> FALSE]

(* the useState initial values of LoginView *)
FreshLogin ==
    [step |-> 1, name |-> "", email |-> "", isRegister |-> TRUE,
     country |-> "", province |-> "", syllabus |-> "", grade |-> ""]

InitLogin == login = FreshLogin

(* App renders without the view v it rendered before: the component of v   *)
(* is unmounted, which discards its state and runs the cleanup of its       *)
(* effects; what a pending continuation of it sets afterwards is set on an  *)
(* unmounted component and is seen by nobody.  The state of a view that is  *)
(* not mounted is written as the state it will have when it is mounted.     *)
unmounted(v) ==
    /\ IF v = "QUIZ"
         THEN quiz' = FreshQuiz /\ quizCalls' = 0 /\ quizAnswers' = <<>>
         ELSE UNCHANGED quizVars
    /\ IF v = "LIBRARY"
         THEN library' = FreshLibrary /\ libraryCalls' = <<>>
         ELSE UNCHANGED libraryVars
    /\ IF v = "CHAT"
         THEN chat' = FreshChat /\ chatTurns' = <<>>
         ELSE UNCHANGED <<chat, chatTurns>>
    /\ IF v = "FLASHCARDS"
         THEN /\ flashcards' = FreshFlashcards
              /\ cardObjects' = <<>>
              /\ flashcardCalls' = <<>>
              /\ illustrationCalls' = <<>>
              /\ renderThrew' = FALSE
         ELSE UNCHANGED flashcardVars
    /\ IF v = "PLANNER"
         THEN /\ planner' = FreshPlanner
              /\ plannerCalls' = [issued |-> 0, pending |-> 0]
              /\ plannerInterval' = Null
              /\ plannerIntervals' = clearInterval(plannerInterval)
              /\ timerLog' = [preset |-> 0, ticks |-> 0, alerts |-> 0]
         ELSE UNCHANGED plannerVars
    /\ IF v = "CONTRIBUTE"
         THEN contribute' = FreshContribute /\ contributeCalls' = [issued |-> 0, pending |-> 0]
         ELSE UNCHANGED contributeVars
    /\ IF v = "WHITEBOARD"
         THEN whiteboard' = FreshWhiteboard /\ whiteboardCalls' = [issued |-> 0, pending |-> 0]
         ELSE UNCHANGED whiteboardVars
    /\ UNCHANGED now

(* LoginView: name input onChange, rendered on step 1 *)
setName(v) ==
    /\ ~app.user.isLoggedIn
    /\ login.step = 1
    /\ login' = [login EXCEPT !.name = v]
    /\ lastOp' = Op("setName", 0, <<>>, NoAlert)
    /\ UNCHANGED <<app, notApp>>

(* LoginView: email input onChange, rendered on step 1 *)
setEmail(v) ==
    /\ ~app.user.isLoggedIn
    /\ login.step = 1
    /\ login' = [login EXCEPT !.email = v]
    /\ lastOp' = Op("setEmail", 0, <<>>, NoAlert)
    /\ UNCHANGED <<app, notApp>>

(* LoginView: the 'Already have an account?' button of step 1 *)
setIsRegister ==
    /\ ~app.user.isLoggedIn
    /\ login.step = 1
    /\ login' = [login EXCEPT !.isRegister = ~login.isRegister]
    /\ lastOp' = Op("setIsRegister", 0, <<>>, NoAlert)
    /\ UNCHANGED <<app, notApp>>

(* handleNext that asks for the name only *)
handleNextStepMutant ==
    /\ ~app.user.isLoggedIn
    /\ login.step = 1
    /\ login' = [login EXCEPT !.step = IF login.name # "" THEN 2 ELSE @]
    /\ lastOp' = Op("handleNext", 0, <<>>, NoAlert)
    /\ UNCHANGED <<app, notApp>>

(* LoginView.handleNext, the 'Next Step' button of step 1 *)
handleNextStep ==
    /\ ~app.user.isLoggedIn
    /\ login.step = 1
    /\ login' = [login EXCEPT !.step = IF login.name # "" /\ login.email # "" THEN 2 ELSE @]
    /\ lastOp' = Op("handleNext", 0, <<>>, NoAlert)
    /\ UNCHANGED <<app, notApp>>

(* LoginView: the inputs of step 2 and the grade select; field is one of   *)
(* country, province, syllabus, grade                                       *)
setProfileField(field, v) ==
    /\ ~app.user.isLoggedIn
    /\ login.step = 2
    /\ field = "grade" => v \in GradeOptions
    /\ login' = [login EXCEPT ![field] = v]
    /\ lastOp' = Op("setProfileField", 0, <<>>, NoAlert)
    /\ UNCHANGED <<app, notApp>>

(* LoginView: the Back button of step 2, setStep(1) *)
setStepBack ==
    /\ ~app.user.isLoggedIn
    /\ login.step = 2
    /\ login' = [login EXCEPT !.step = 1]
    /\ lastOp' = Op("setStepBack", 0, <<>>, NoAlert)
    /\ UNCHANGED <<app, notApp>>

(* a handleLogin that replaces the settings instead of merging into them *)
handleLoginMutant(name, email, profileUpdates) ==
    /\ ~app.user.isLoggedIn
    /\ app' = [app EXCEPT !.user = [name |-> name, email |-> email, isLoggedIn |-> TRUE],
                          !.settings = [language |-> "English",
                                        syllabus |-> profileUpdates.syllabus,
                                        userLevel |-> profileUpdates.userLevel,
                                        country |-> profileUpdates.country,
                                        province |-> profileUpdates.province]]
    /\ login' = FreshLogin
    /\ lastOp' = Op("handleLogin", 0, <<>>, NoAlert)
    /\ UNCHANGED notApp

(* App.handleLogin, the onLogin of LoginView: { ...prev, ...profileUpdates } *)
(* keeps the language; App then renders the view currentView names instead  *)
(* of LoginView                                                             *)
handleLogin(name, email, profileUpdates) ==
    /\ ~app.user.isLoggedIn
    /\ app' = [app EXCEPT !.user = [name |-> name, email |-> email, isLoggedIn |-> TRUE],
                          !.settings = [language |-> app.settings.language,
                                        syllabus |-> profileUpdates.syllabus,
                                        userLevel |-> profileUpdates.userLevel,
                                        country |-> profileUpdates.country,
                                        province |-> profileUpdates.province]]
    /\ login' = FreshLogin
    /\ lastOp' = Op("handleLogin", 0, <<>>, NoAlert)
    /\ UNCHANGED notApp

(* LoginView.handleFinish, the 'Finish Setup' button of step 2 *)
handleFinish ==
    /\ ~app.user.isLoggedIn
    /\ login.step = 2
    /\ IF login.country # "" /\ login.province # "" /\ login.syllabus # "" /\ login.grade # ""
         THEN handleLogin(login.name, login.email,
                          [country |-> login.country, province |-> login.province,
                           syllabus |-> login.syllabus, userLevel |-> login.grade])
         ELSE /\ lastOp' = Op("handleFinish", 0, <<>>, FillAlert)
              /\ UNCHANGED <<app, login, notApp>>

(* handleLogout that leaves the admin flag as it is *)
handleLogoutMutant ==
    /\ app.user.isLoggedIn
    /\ app.currentView # "SETTINGS"
    /\ app' = [app EXCEPT !.user = NoUser]
    /\ unmounted(app.currentView)
    /\ lastOp' = Op("handleLogout", 0, <<>>, NoAlert)
    /\ UNCHANGED login

(* App.handleLogout, offered by Header, which SettingsView does not show;   *)
(* App then renders LoginView instead of the view                           *)
handleLogout ==
    /\ app.user.isLoggedIn
    /\ app.currentView # "SETTINGS"
    /\ app' = [app EXCEPT !.user = NoUser, !.isAdminMode = FALSE]
    /\ unmounted(app.currentView)
    /\ lastOp' = Op("handleLogout", 0, <<>>, NoAlert)
    /\ UNCHANGED login

(* BottomNav onNavigate and the four buttons of the HOME view:              *)
(* setCurrentView(v), which renders nothing anew when v is the current view *)
onNavigate(v) ==
    /\ app.user.isLoggedIn
    /\ app.currentView # "SETTINGS"
    /\ v \in NavItems \/ (app.currentView = "HOME" /\ v \in HomeButtons)
    /\ app' = [app EXCEPT !.currentView = v]
    /\ IF v = app.currentView THEN UNCHANGED notApp ELSE unmounted(app.currentView)
    /\ lastOp' = Op("onNavigate", 0, <<>>, NoAlert)
    /\ UNCHANGED login

(* Header onSettings *)
onSettings ==
    /\ app.user.isLoggedIn
    /\ app.currentView # "SETTINGS"
    /\ app' = [app EXCEPT !.currentView = "SETTINGS"]
    /\ unmounted(app.currentView)
    /\ lastOp' = Op("onSettings", 0, <<>>, NoAlert)
    /\ UNCHANGED login

(* SettingsView onBack *)
onBack ==
    /\ app.user.isLoggedIn
    /\ app.currentView = "SETTINGS"
    /\ app' = [app EXCEPT !.currentView = "HOME"]
    /\ lastOp' = Op("onBack", 0, <<>>, NoAlert)
    /\ UNCHANGED <<login, notApp>>

(* the values of the options of the grade select of SettingsView *)
SettingsGradeOptions == {"Class 9", "Class 10", "Inter Part 1 (11th)", "Inter Part 2 (12th)",
                         "Undergraduate", "Postgraduate"}

(* SettingsView selects and inputs -> onUpdate({...settings, [field]: v}) *)
onUpdate(field, v) ==
    /\ app.user.isLoggedIn
    /\ app.currentView = "SETTINGS"
    /\ field = "userLevel" => v \in SettingsGradeOptions
    /\ app' = [app EXCEPT !.settings[field] = v]
    /\ lastOp' = Op("onUpdate", 0, <<>>, NoAlert)
    /\ UNCHANGED <<login, notApp>>

(* App: onToggleAdmin={() => setIsAdminMode(!isAdminMode)} *)
onToggleAdmin(a) == [a EXCEPT !.isAdminMode = ~a.isAdminMode]

(* handleAdminToggle accepting whatever was typed: if (pwd) instead of the comparison *)
handleAdminToggleMutant(pwd) ==
    /\ app.user.isLoggedIn
    /\ app.currentView = "SETTINGS"
    /\ app.user.email = OwnerEmail
    /\ IF app.isAdminMode
         THEN /\ app' = onToggleAdmin(app)
              /\ lastOp' = Op("handleAdminToggle", 0, <<>>, NoAlert)
         ELSE IF ~pwd.cancelled
                THEN /\ app' = onToggleAdmin(app)
                     /\ lastOp' = Op("handleAdminToggle", 0, <<pwd>>, NoAlert)
                ELSE /\ app' = app
                     /\ lastOp' = Op("handleAdminToggle", 0, <<pwd>>, DeniedAlert)
    /\ UNCHANGED <<login, notApp>>

(* SettingsView.handleAdminToggle; the button is rendered for the owner email only *)
handleAdminToggle(pwd) ==
    /\ app.user.isLoggedIn
    /\ app.currentView = "SETTINGS"
    /\ app.user.email = OwnerEmail
    /\ IF app.isAdminMode
         THEN /\ app' = onToggleAdmin(app)
              /\ lastOp' = Op("handleAdminToggle", 0, <<>>, NoAlert)
         ELSE IF StrictEq(pwd, OwnerPassword)
                THEN /\ app' = onToggleAdmin(app)
                     /\ lastOp' = Op("handleAdminToggle", 0, <<pwd>>, NoAlert)
                ELSE /\ app' = app
                     /\ lastOp' = Op("handleAdminToggle", 0, <<pwd>>, DeniedAlert)
    /\ UNCHANGED <<login, notApp>>

----------------------------------------------------------------------------
(* Specifications *)

(* A logged-in session showing view v: what App passes to the mounted view *)
Mounted(v, email, admin) ==
    [user |-> [name |-> "Ada", email |-> email, isLoggedIn |-> TRUE],
     currentView |-> v,
     settings |-> [language |-> "English", syllabus |-> "Punjab Textbook Board",
                   userLevel |-> "Class 9", country |-> "Pakistan", province |-> "Punjab"],
     isAdminMode |-> admin]

InitViews ==
    InitQuiz /\ InitLibrary /\ InitChat /\ InitFlashcards /\ InitPlanner /\ InitContribute /\ InitWhiteboard

(* what is typed into LoginView: nothing, or one of the names, emails and   *)
(* profile values; the grade is chosen among options of the select          *)
LoginEdit ==
    \/ \E v \in {""} \cup Names : setName(v)
    \/ \E v \in {""} \cup Emails : setEmail(v)
    \/ \E v \in {""} \cup {p.country : p \in Profiles} : setProfileField("country", v)
    \/ \E v \in {""} \cup {p.province : p \in Profiles} : setProfileField("province", v)
    \/ \E v \in {""} \cup {p.syllabus : p \in Profiles} : setProfileField("syllabus", v)
    \/ \E v \in {""} \cup {p.userLevel : p \in Profiles} : setProfileField("grade", v)

Navigate == \E v \in Views : onNavigate(v)

Update ==
    \/ \E l \in Languages : onUpdate("language", l)
    \/ \E v \in {"Postgraduate"} : onUpdate("userLevel", v)

AdminToggle == \E pwd \in PromptInputs : handleAdminToggle(pwd)

Init ==
    /\ InitApp
    /\ InitLogin
    /\ InitViews
    /\ lastOp = Op("init", 0, <<>>, NoAlert)

Next ==
    \/ LoginEdit
    \/ setIsRegister
    \/ handleNextStep
    \/ setStepBack
    \/ handleFinish
    \/ handleLogout
    \/ Navigate
    \/ onSettings
    \/ onBack
    \/ Update
    \/ AdminToggle

Spec == Init /\ [][Next]_vars

(* QuizView while it is mounted *)
InitQuizView ==
    /\ app = Mounted("QUIZ", "student@example.com", FALSE)
    /\ InitLogin
    /\ InitViews
    /\ lastOp = Op("init", 0, <<>>, NoAlert)

NextQuiz ==
    \/ \E t \in QuizTopics : setTopic(t)
    \/ handleStart
    \/ \E qs \in QuizPayloads : handleStartResolved(qs)
    \/ handleStartRejected
    \/ QuizQuestionShown /\ \E index \in 0..(Len(CurrentQuestion.options) - 1) : handleAnswer(index)
    \/ nextQuestion
    \/ tryAnother

SpecQuiz == InitQuizView /\ [][NextQuiz]_vars

(* a user who goes on using QuizView as long as it offers anything that changes it *)
SpecQuizLive == SpecQuiz /\ WF_vars(NextQuiz)

(* LibraryView while it is mounted, for the owner in admin mode and for others *)
InitLibraryView ==
    /\ \/ app = Mounted("LIBRARY", OwnerEmail, TRUE)
       \/ app = Mounted("LIBRARY", "student@example.com", FALSE)
    /\ InitLogin
    /\ InitViews
    /\ lastOp = Op("init", 0, <<>>, NoAlert)

NextLibrary ==
    \/ \E q \in SearchQueries : setSearchQuery(q)
    \/ handleSearch
    \/ \E c \in 1..MaxSearchCalls, response \in SearchResponses : handleSearchResolved(c, response)
    \/ \E c \in 1..MaxSearchCalls : handleSearchRejected(c)
    \/ \E title \in BookTitlePrompts : handleAddBook(title)

SpecLibrary == InitLibraryView /\ [][NextLibrary]_vars

(* ChatView while it is mounted *)
InitChatView ==
    /\ app = Mounted("CHAT", "student@example.com", FALSE)
    /\ InitLogin
    /\ InitViews
    /\ lastOp = Op("init", 0, <<>>, NoAlert)

NextChat ==
    \/ \E v \in ChatInputs : setInput(v)
    \/ onClickSend
    \/ onKeyDownEnter
    \/ \E t \in 1..MaxTurns : providerStep(t)

SpecChat == InitChatView /\ [][NextChat]_vars

(* FlashcardView while it is mounted *)
InitFlashcardView ==
    /\ app = Mounted("FLASHCARDS", "student@example.com", FALSE)
    /\ InitLogin
    /\ InitViews
    /\ lastOp = Op("init", 0, <<>>, NoAlert)

NextFlashcards ==
    \/ \E t \in FlashcardTopics : setFlashcardTopic(t)
    \/ handleGenerate
    \/ \E c \in 1..MaxGenerations, newCards \in FlashcardPayloads : handleGenerateResolved(c, newCards)
    \/ \E c \in 1..MaxGenerations : handleGenerateRejected(c)
    \/ handleFlip
    \/ handleNext
    \/ handlePrev
    \/ \E c \in 1..MaxIllustrations, outcome \in IllustrationOutcomes :
          generateIllustrationReturned(c, outcome)

SpecFlashcards == InitFlashcardView /\ [][NextFlashcards]_vars

(* PlannerView while it is mounted *)
InitPlannerView ==
    /\ app = Mounted("PLANNER", "student@example.com", FALSE)
    /\ InitLogin
    /\ InitViews
    /\ lastOp = Op("init", 0, <<>>, NoAlert)

NextPlanner ==
    \/ \E v \in PlannerInputs : setPlannerInput(v)
    \/ \E sound \in Sounds : setNotificationSound(sound)
    \/ handleGenerateSchedule
    \/ \E newSchedule \in SchedulePayloads : handleGenerateScheduleResolved(newSchedule)
    \/ handleGenerateScheduleRejected
    \/ \E i \in DOMAIN planner.schedule : notify(i)
    \/ startTimer(WorkMinutes, "work")
    \/ startTimer(BreakMinutes, "break")
    \/ stopTimer
    \/ \E id \in plannerIntervals : intervalFired(id)

SpecPlanner == InitPlannerView /\ [][NextPlanner]_vars

(* the summarizer of ContributeView while it is mounted *)
NextSummarizer ==
    \/ \E v \in SummarizeInputs : setSummarizeInput(v)
    \/ handleSummarize
    \/ \E text \in ResponseTexts : handleSummarizeResolved(text)
    \/ handleSummarizeRejected

(* the notes of ContributeView while it is mounted *)
NextNotes ==
    \/ \E v \in NoteTitles : setTitle(v)
    \/ \E v \in NoteContents : setContent(v)
    \/ \E waited \in 0..MaxTicks : handleAdd(waited)
    \/ \E i \in 1..MaxNotes : handleDelete(i)
    \/ \E i \in 1..MaxNotes : handleEdit(i)

(* ContributeView while it is mounted, for the owner in admin mode and for others *)
InitContributeView ==
    /\ \/ app = Mounted("CONTRIBUTE", OwnerEmail, TRUE)
       \/ app = Mounted("CONTRIBUTE", "student@example.com", FALSE)
    /\ InitLogin
    /\ InitViews
    /\ lastOp = Op("init", 0, <<>>, NoAlert)

NextContribute ==
    \/ NextNotes
    \/ NextSummarizer

SpecContribute == InitContributeView /\ [][NextContribute]_vars

(* WhiteboardView while it is mounted *)
NextWhiteboard ==
    \/ startDrawing
    \/ draw
    \/ stopDrawing
    \/ clearBoard
    \/ handleAnalyze
    \/ \E text \in ResponseTexts : handleAnalyzeResolved(text)
    \/ handleAnalyzeRejected

(* The mode controllers whose provider operation has a fallback value,     *)
(* each while it is mounted                                                *)
FallbackViews == {"FLASHCARDS", "CONTRIBUTE", "LIBRARY", "WHITEBOARD"}

InitFallbacks ==
    /\ \E v \in FallbackViews : app = Mounted(v, "student@example.com", FALSE)
    /\ InitLogin
    /\ InitViews
    /\ lastOp = Op("init", 0, <<>>, NoAlert)

NextFallbacks ==
    \/ app.currentView = "FLASHCARDS" /\ NextFlashcards
    \/ app.currentView = "CONTRIBUTE" /\ NextSummarizer
    \/ app.currentView = "LIBRARY" /\ NextLibrary
    \/ app.currentView = "WHITEBOARD" /\ NextWhiteboard

SpecFallbacks == InitFallbacks /\ [][NextFallbacks]_vars

(* The mode controllers that call the provider, each while it is mounted *)
ControllerViews == {"FLASHCARDS", "QUIZ", "PLANNER", "CONTRIBUTE", "LIBRARY", "WHITEBOARD"}

InitControllers ==
    /\ \/ \E v \in ControllerViews : app = Mounted(v, "student@example.com", FALSE)
       \/ app = Mounted("LIBRARY", OwnerEmail, TRUE)
    /\ InitLogin
    /\ InitViews
    /\ lastOp = Op("init", 0, <<>>, NoAlert)

NextControllers ==
    \/ app.currentView = "FLASHCARDS" /\ NextFlashcards
    \/ app.currentView = "QUIZ" /\ NextQuiz
    \/ app.currentView = "PLANNER" /\ NextPlanner
    \/ app.currentView = "CONTRIBUTE" /\ NextSummarizer
    \/ app.currentView = "LIBRARY" /\ NextLibrary
    \/ app.currentView = "WHITEBOARD" /\ NextWhiteboard

SpecControllers == InitControllers /\ [][NextControllers]_vars

(* The session with the two views that hold what the user has entered: App *)
(* with the notes of ContributeView and the added books of LibraryView,    *)
(* each view acting while App renders it                                   *)
NextSession ==
    \/ Next
    \/ app.user.isLoggedIn /\ app.currentView = "CONTRIBUTE" /\ NextNotes
    \/ app.user.isLoggedIn /\ app.currentView = "LIBRARY"
          /\ \E title \in BookTitlePrompts : handleAddBook(title)

SpecSession == Init /\ [][NextSession]_vars

(* the provider's fragment sequence eventually ends or raises *)
SpecChatLive == SpecChat /\ \A t \in 1..MaxTurns : WF_vars(providerStep(t))

----------------------------------------------------------------------------
(* Chat turns *)

RECURSIVE Concat(_)
Concat(fragments) ==
    IF fragments = <<>> THEN <<>> ELSE Head(fragments) \o Concat(Tail(fragments))

IsPrefix(t, u) == Len(t) <= Len(u) /\ SubSeq(u, 1, Len(t)) = t

InFlight(t) == t \in DOMAIN chatTurns /\ chatTurns[t].state \in {"sending", "streaming"}

Finished(t) == t \in DOMAIN chatTurns /\ chatTurns[t].state \in {"complete", "failed"}

(* C1: when a turn completes, the text of its placeholder message is the   *)
(* concatenation, in order, of the non-empty fragments its onChunk got.    *)
C1_FinalTextIsConcatenation ==
    [][\A t \in DOMAIN chatTurns :
          (chatTurns[t].state = "streaming" /\ chatTurns'[t].state = "complete")
          => chat'.messages[chatTurns[t].placeholder].text = Concat(chatTurns[t].fragments)]_vars

(* C2: while isTyping is true no step starts another turn: no message is   *)
(* appended and no streamChatResponse call is issued.                      *)
C2_NoConcurrentTurns ==
    [][chat.isTyping
       => (Len(chatTurns') = Len(chatTurns) /\ Len(chat'.messages) = Len(chat.messages))]_vars

(* C3: when the provider call of a turn raises, the turn's placeholder     *)
(* text becomes exactly the apology and every other message is unchanged.  *)
C3_FailureOverwritesPlaceholderOnly ==
    [][\A t \in DOMAIN chatTurns :
          (InFlight(t) /\ chatTurns'[t].state = "failed")
          => /\ chat'.messages[chatTurns[t].placeholder].text = Apology
             /\ \A k \in DOMAIN chat.messages :
                   k # chatTurns[t].placeholder => chat'.messages[k] = chat.messages[k]]_vars

(* C4: every turn that was sent ends, complete or failed, provided the     *)
(* provider goes on until its sequence ends or raises: no turn stays in    *)
(* flight for ever, and a turn in flight stays so until it is complete or  *)
(* failed; and the step that ends a turn, either way, leaves isTyping      *)
(* false.                                                                  *)
C4_TurnTerminates ==
    /\ \A t \in 1..MaxTurns : []<>(~InFlight(t))
    /\ [][\A t \in DOMAIN chatTurns :
             InFlight(t) => /\ t \in DOMAIN chatTurns'
                            /\ chatTurns'[t].state \in {"sending", "streaming", "complete", "failed"}]_vars
    /\ [][\A t \in DOMAIN chatTurns :
             (InFlight(t) /\ chatTurns'[t].state \in {"complete", "failed"})
             => ~chat'.isTyping]_vars

(* one turn has completed, another has failed, and nothing is being typed *)
C4_Witness ==
    /\ \E t \in DOMAIN chatTurns : chatTurns[t].state = "complete"
    /\ \E t \in DOMAIN chatTurns : chatTurns[t].state = "failed"
    /\ ~chat.isTyping

(* C5: a user message keeps its text; the placeholder of a turn in flight  *)
(* only grows by appending, until the turn fails; the placeholder of a     *)
(* turn that has ended keeps its text.                                     *)
C5_AppendOnlyThenFrozen ==
    [][\A k \in DOMAIN chat.messages :
          /\ chat.messages[k].role = "user" => chat'.messages[k].text = chat.messages[k].text
          /\ \A t \in DOMAIN chatTurns :
                chatTurns[t].placeholder = k
                => IF Finished(t)
                     THEN chat'.messages[k].text = chat.messages[k].text
                     ELSE \/ IsPrefix(chat.messages[k].text, chat'.messages[k].text)
                          \/ chatTurns'[t].state = "failed"]_vars

----------------------------------------------------------------------------
(* C6: a handleAnswer call made while the current question already has a   *)
(* selection changes neither score nor selectedAnswer, whatever index it   *)
(* is called with.                                                         *)
C6_AnswerIdempotent ==
    [][(lastOp'.op = "handleAnswer" /\ quiz.selectedAnswer # Null)
       => (quiz'.score = quiz.score /\ quiz'.selectedAnswer = quiz.selectedAnswer)]_vars

(* option 1 was clicked after option 0 had been selected, and 0 still stands *)
C6_Witness ==
    /\ lastOp.op = "handleAnswer"
    /\ lastOp.n = 1
    /\ quiz.selectedAnswer = Some(0)

(* the selections that matched the question's correctAnswerIndex *)
CorrectSelections == {k \in DOMAIN quizAnswers : quizAnswers[k].selected = quizAnswers[k].correct}

(* C7: on the result screen score is the number of accepted selections     *)
(* that equalled their question's correctAnswerIndex, every question of    *)
(* the run having exactly one accepted selection; and every step adds 1 to *)
(* score if it is such a selection and 0 otherwise.                        *)
C7_ScoreCountsCorrect ==
    /\ [](quiz.showResult =>
            /\ quiz.score = Cardinality(CorrectSelections)
            /\ \A j, k \in DOMAIN quizAnswers :
                   quizAnswers[j].question = quizAnswers[k].question => j = k
            /\ quiz.questions # <<>> =>
                   {quizAnswers[k].question : k \in DOMAIN quizAnswers}
                       = 0..(Len(quiz.questions) - 1))
    /\ [][quiz'.score = quiz.score +
             (IF /\ Len(quizAnswers') = Len(quizAnswers) + 1
                 /\ quizAnswers'[Len(quizAnswers')].selected
                        = quiz.questions[quiz.currentIndex + 1].correctAnswerIndex
                THEN 1 ELSE 0)]_vars

(* a finished run of two questions with one right and one wrong selection *)
C7_Witness ==
    /\ quiz.showResult
    /\ Len(quiz.questions) = 2
    /\ quiz.score = 1
    /\ Cardinality(CorrectSelections) = 1

----------------------------------------------------------------------------
(* title contains query as a substring when letter case is ignored *)
TitleMatches(title, query) ==
    \E offset \in 0..(Len(title) - Len(query)) :
        \A k \in 1..Len(query) : LowerOf(title[offset + k]) = LowerOf(query[k])

(* C8: a handleSearch call issues one findExternalBookResource call, for   *)
(* the query in the search box, when no book title contains the query      *)
(* (ignoring case) and the query is longer than 3; otherwise it issues     *)
(* none; and no other step issues an external-resource call.               *)
C8_ExternalSearch ==
    [][LET query == library.searchQuery
           qualifies == /\ \A b \in DOMAIN library.books :
                               ~TitleMatches(library.books[b].title, query)
                        /\ Len(query) > 3
       IN IF lastOp'.op = "handleSearch" /\ qualifies
            THEN /\ Len(libraryCalls') = Len(libraryCalls) + 1
                 /\ libraryCalls'[Len(libraryCalls')] = [query |-> query, pending |-> TRUE]
            ELSE Len(libraryCalls') = Len(libraryCalls)]_vars

(* "Quantum Biology" was searched with no such book: its call is the only one *)
C8_Witness ==
    /\ lastOp.op = "handleSearch"
    /\ library.searchQuery = QuantumBiology
    /\ Len(library.books) = 2
    /\ libraryCalls = <<[query |-> QuantumBiology, pending |-> TRUE]>>

----------------------------------------------------------------------------
(* C9: when the owner, with admin mode off, answers the password prompt,   *)
(* the admin flag turns on if the answer is exactly the shared secret and  *)
(* no alert is raised; for any other answer, a cancelled prompt included,  *)
(* the flag keeps its value and the denial alert is raised.                *)
C9_AdminToggle ==
    [][(/\ lastOp'.op = "handleAdminToggle"
        /\ lastOp'.prompts # <<>>
        /\ app.user.email = "agdealers8@gmail.com"
        /\ ~app.isAdminMode)
       => LET pwd == lastOp'.prompts[1] IN
          IF ~pwd.cancelled /\ pwd.text = "ag12de34"
            THEN app'.isAdminMode /\ lastOp'.alert = NoAlert
            ELSE /\ app'.isAdminMode = app.isAdminMode
                 /\ lastOp'.alert = "Incorrect Password. Access Denied."]_vars

(* the owner has just typed the secret and admin mode is on *)
C9_Witness ==
    /\ lastOp.op = "handleAdminToggle"
    /\ lastOp.prompts = <<Typed("ag12de34")>>
    /\ app.user.email = "agdealers8@gmail.com"
    /\ app.isAdminMode

(* C10: FlashcardView.handleNext from the last of the N >= 1 cards goes to *)
(* index 0 and from any other card to the index one higher; handlePrev     *)
(* from index 0 goes to index N - 1 and from any other card to the index   *)
(* one lower; both leave isFlipped false.                                  *)
C10_NavigationWraps ==
    [][LET N == Len(flashcards.cards)
           i == flashcards.currentIndex
       IN /\ (lastOp'.op = "handleNext" /\ N >= 1)
                => /\ flashcards'.currentIndex = IF i = N - 1 THEN 0 ELSE i + 1
                   /\ ~flashcards'.isFlipped
          /\ (lastOp'.op = "handlePrev" /\ N >= 1)
                => /\ flashcards'.currentIndex = IF i = 0 THEN N - 1 ELSE i - 1
                   /\ ~flashcards'.isFlipped]_vars

(* handleNext has gone round from the last of several cards to the first *)
C10_Witness ==
    /\ lastOp.op = "handleNext"
    /\ Len(flashcards.cards) >= 2
    /\ lastOp.n = Len(flashcards.cards) - 1
    /\ flashcards.currentIndex = 0
    /\ ~flashcards.isFlipped

(* C11: once startTimer(25, 'work') has run, the timer is running with     *)
(* 1500 seconds left; after t interval callbacks 1500 - t seconds are      *)
(* left; no completion alert is raised before the 1500th callback; the     *)
(* 1500th leaves 0 seconds, stops the timer and raises the focus alert,    *)
(* the only one; and no callback follows it.                               *)
C11_TimerCompletes ==
    timerLog.preset = 1500 =>
        /\ planner.timerMode = "work"
        /\ timerLog.ticks \in 0..1500
        /\ planner.timerSeconds = 1500 - timerLog.ticks
        /\ lastOp.op = "startTimer" => planner.isTimerRunning /\ planner.timerSeconds = 1500
        /\ timerLog.alerts = IF timerLog.ticks = 1500 THEN 1 ELSE 0
        /\ timerLog.ticks = 1500 => ~planner.isTimerRunning /\ plannerIntervals = {}
        /\ (lastOp.op = "intervalFired" /\ timerLog.ticks = 1500) => lastOp.alert = WorkAlert
        /\ (lastOp.op = "intervalFired" /\ timerLog.ticks < 1500) => lastOp.alert = NoAlert

(* the focus timer has counted 1500 callbacks down to 0 and has stopped with its alert *)
C11_Witness ==
    /\ timerLog = [preset |-> 1500, ticks |-> 1500, alerts |-> 1]
    /\ planner.timerSeconds = 0
    /\ ~planner.isTimerRunning
    /\ lastOp = Op("intervalFired", 0, <<>>, WorkAlert)

(* C12: when the generation call of FlashcardView, QuizView or PlannerView *)
(* fails, the cards and the current index, the questions, the score and    *)
(* the position in the quiz, and the schedule stay as they were; and       *)
(* isLoading is false once the call has resolved or rejected.              *)
C12_FailureKeepsResults ==
    [][/\ lastOp'.op = "handleGenerateRejected"
            => /\ flashcards'.cards = flashcards.cards
               /\ flashcards'.currentIndex = flashcards.currentIndex
               /\ cardObjects' = cardObjects
       /\ lastOp'.op = "handleStartRejected"
            => /\ quiz'.questions = quiz.questions
               /\ quiz'.score = quiz.score
               /\ quiz'.currentIndex = quiz.currentIndex
               /\ quiz'.selectedAnswer = quiz.selectedAnswer
               /\ quiz'.showResult = quiz.showResult
       /\ lastOp'.op = "handleGenerateScheduleRejected"
            => planner'.schedule = planner.schedule
       /\ lastOp'.op \in {"handleGenerateRejected", "handleGenerateResolved"}
            => ~flashcards'.isLoading
       /\ lastOp'.op \in {"handleStartRejected", "handleStartResolved"}
            => ~quiz'.isLoading
       /\ lastOp'.op \in {"handleGenerateScheduleRejected", "handleGenerateScheduleResolved"}
            => ~planner'.isLoading]_vars

(* a generation failed while cards were held and a later card was shown *)
C12_Witness ==
    /\ lastOp.op = "handleGenerateRejected"
    /\ Len(flashcards.cards) > 1
    /\ flashcards.currentIndex > 0
    /\ ~flashcards.isLoading

(* C13: in FlashcardView, QuizView, PlannerView, ContributeView (the       *)
(* summarizer), LibraryView and WhiteboardView the step that handles a     *)
(* failure of the provider raises an alert and leaves the controller's     *)
(* loading flag false.                                                     *)
C13_FailureAlerts ==
    [][/\ lastOp'.op \in {"handleGenerateRejected", "handleStartRejected",
                          "handleGenerateScheduleRejected", "handleSummarizeRejected",
                          "handleSearchRejected", "handleAnalyzeRejected"}
            => lastOp'.alert # NoAlert
       /\ lastOp'.op = "handleGenerateRejected" => ~flashcards'.isLoading
       /\ lastOp'.op = "handleStartRejected" => ~quiz'.isLoading
       /\ lastOp'.op = "handleGenerateScheduleRejected" => ~planner'.isLoading
       /\ lastOp'.op = "handleSummarizeRejected" => ~contribute'.isSummarizing
       /\ lastOp'.op = "handleSearchRejected" => ~library'.searching
       /\ lastOp'.op = "handleAnalyzeRejected" => ~whiteboard'.isAnalyzing]_vars

(* C14: QuizView can be entered again: once the result is shown, after the *)
(* last question and after 'Try Another', a user who goes on gets to the   *)
(* topic form, from which handleStart can be issued.                       *)
C14_ReEnterable == quiz.showResult ~> QuizFormShown

(* C15: whenever SettingsView.handleAdminToggle changes the admin flag, on *)
(* or off, the exact secret has been typed into its prompt.                *)
C15_ToggleNeedsSecret ==
    [][(lastOp'.op = "handleAdminToggle" /\ app'.isAdminMode # app.isAdminMode)
          => lastOp'.prompts = <<Typed("ag12de34")>>]_vars

(* C16: the admin flag is true only while a user is logged in whose email  *)
(* is the owner's; a logged-in user with another email never has it.       *)
C16_AdminOnlyOwner ==
    app.isAdminMode => (app.user.isLoggedIn /\ app.user.email = "agdealers8@gmail.com")

(* the owner has turned admin mode on and has then left the settings for another view *)
C16_Witness ==
    /\ app.isAdminMode
    /\ app.user.isLoggedIn
    /\ app.user.email = "agdealers8@gmail.com"
    /\ lastOp.op = "onNavigate"

(* C17: the generatedImage of a card, once it has a value, keeps that      *)
(* value in every step.                                                    *)
C17_ImageNeverOverwritten ==
    [][\A o \in DOMAIN cardObjects :
          cardObjects[o].generatedImage # Null
             => cardObjects'[o].generatedImage = cardObjects[o].generatedImage]_vars

(* the generateFlashcards calls that have resolved *)
Generations == {c \in DOMAIN flashcardCalls : flashcardCalls[c] = "resolved"}

(* C18: once a generation has succeeded, cards is the set of cards of the  *)
(* latest successful generation, in its order, whatever illustration       *)
(* fetches of earlier sets have returned since.                            *)
C18_ReplacedWholesale ==
    \A g \in Generations :
        (\A c \in Generations : c <= g)
           => /\ \A k \in DOMAIN flashcards.cards :
                    cardObjects[flashcards.cards[k]].front = <<g, k>>
              /\ Len(flashcards.cards) =
                    Cardinality({o \in DOMAIN cardObjects : cardObjects[o].front[1] = g})

(* C19: an image is attached only to the card whose imageKeyword its fetch *)
(* was given, the card that was current when the fetch was issued, also    *)
(* when another card is current by the time the fetch returns.             *)
C19_ImageForItsCard ==
    \A o \in DOMAIN cardObjects :
        \A c \in DOMAIN illustrationCalls :
            cardObjects[o].generatedImage = Some(c) => illustrationCalls[c].card = o

(* a fetch has just returned with an image for a card that is in the list  *)
(* but is no longer the current one                                        *)
C19_Witness ==
    /\ lastOp.op = "generateIllustrationReturned"
    /\ lastOp.n \in DOMAIN illustrationCalls
    /\ cardObjects[illustrationCalls[lastOp.n].card].generatedImage = Some(lastOp.n)
    /\ CardShown
    /\ flashcards.currentIndex + 1 \in DOMAIN flashcards.cards
    /\ flashcards.cards[flashcards.currentIndex + 1] # illustrationCalls[lastOp.n].card
    /\ \E k \in DOMAIN flashcards.cards : flashcards.cards[k] = illustrationCalls[lastOp.n].card

(* C20: at most one interval is live, and one is live exactly while the    *)
(* timer is running; each callback of it takes exactly one second off the  *)
(* remaining seconds; startTimer sets them to 1500 for work and to 300 for *)
(* break, whatever was left; and nothing else changes them.                *)
C20_OneTimer ==
    [][/\ Cardinality(plannerIntervals') <= 1
       /\ (plannerIntervals' # {}) = planner'.isTimerRunning
       /\ lastOp'.op = "intervalFired"
            => planner.isTimerRunning /\ planner'.timerSeconds = planner.timerSeconds - 1
       /\ lastOp'.op = "startTimer"
            => /\ planner'.timerMode = "work" => planner'.timerSeconds = 1500
               /\ planner'.timerMode = "break" => planner'.timerSeconds = 300
               /\ planner'.timerMode \in {"work", "break"}
       /\ lastOp'.op \notin {"intervalFired", "startTimer"}
            => planner'.timerSeconds = planner.timerSeconds]_vars

(* a break has been started while seconds of a stopped timer were left *)
C20_Witness ==
    /\ lastOp.op = "startTimer"
    /\ lastOp.n = 1
    /\ planner.timerMode = "break"
    /\ planner.timerSeconds = 300
    /\ planner.isTimerRunning
    /\ Cardinality(plannerIntervals) = 1

----------------------------------------------------------------------------
(* C21: LoginView goes from step 1 to step 2 only by handleNext with a     *)
(* non-empty name and a non-empty email; a user becomes logged in only by  *)
(* handleFinish with country, province, syllabus and grade all non-empty,  *)
(* which are then the settings, and a handleFinish with one of them empty  *)
(* leaves the user logged out; so a logged-in user has a non-empty name    *)
(* and email, and the grade stored by the login is an option of the select *)
(* of LoginView other than the empty one.                                  *)
C21_ProfileIntake ==
    /\ [](app.user.isLoggedIn =>
            /\ app.user.name # ""
            /\ app.user.email # "")
    /\ [][/\ (login.step = 1 /\ login'.step = 2)
               => (lastOp'.op = "handleNext" /\ login.name # "" /\ login.email # "")
          /\ (~app.user.isLoggedIn /\ app'.user.isLoggedIn)
               => /\ login.step = 2
                  /\ login.country # "" /\ login.province # ""
                  /\ login.syllabus # "" /\ login.grade # ""
                  /\ app'.user = [name |-> login.name, email |-> login.email, isLoggedIn |-> TRUE]
                  /\ app'.settings.country = login.country
                  /\ app'.settings.province = login.province
                  /\ app'.settings.syllabus = login.syllabus
                  /\ app'.settings.userLevel = login.grade
                  /\ login.grade \in GradeOptions \ {""}
          /\ lastOp'.op = "handleFinish"
               => (~app'.user.isLoggedIn /\ lastOp'.alert = FillAlert)]_vars

(* the owner has just finished the profile form with the grade 'Other' *)
C21_Witness ==
    /\ lastOp.op = "handleLogin"
    /\ app.user = [name |-> "Ada", email |-> OwnerEmail, isLoggedIn |-> TRUE]
    /\ app.settings.userLevel = "Other"
    /\ app.settings.country = "Pakistan"

(* C22: handleEdit on the i-th note leaves the list without exactly that   *)
(* note, the others in their order, and puts its title and content into    *)
(* the inputs; handleAdd with a title and a content puts one new note at   *)
(* the head of the list, whose id no note of the list has, and clears the  *)
(* inputs and the editing marker; handleAdd with an empty title or content *)
(* changes nothing.                                                        *)
C22_NotesEditAndAdd ==
    [][LET notes == contribute.notes IN
       /\ lastOp'.op = "handleEdit"
            => LET i == lastOp'.n IN
               /\ contribute'.notes = SubSeq(notes, 1, i - 1) \o SubSeq(notes, i + 1, Len(notes))
               /\ contribute'.title = notes[i].title
               /\ contribute'.content = notes[i].content
       /\ (lastOp'.op = "handleAdd" /\ contribute.title # "" /\ contribute.content # "")
            => /\ Len(contribute'.notes) = Len(notes) + 1
               /\ Tail(contribute'.notes) = notes
               /\ contribute'.notes[1].title = contribute.title
               /\ contribute'.notes[1].content = contribute.content
               /\ \A k \in DOMAIN notes : notes[k].id # contribute'.notes[1].id
               /\ contribute'.title = "" /\ contribute'.content = ""
               /\ contribute'.isEditing = Null
       /\ (lastOp'.op = "handleAdd" /\ (contribute.title = "" \/ contribute.content = ""))
            => contribute' = contribute]_vars

(* C23: while a user is logged in, a step that changes the view shown      *)
(* (BottomNav, the HOME buttons, the settings and back from them) leaves   *)
(* the notes and the note being written, the chat messages, the cards, the *)
(* quiz, the schedule and the books as they were, so that they are there   *)
(* when the user comes back to their view.                                 *)
C23_EntitiesSurviveNavigation ==
    [][(app.user.isLoggedIn /\ lastOp'.op \in {"onNavigate", "onSettings", "onBack"})
          => /\ contribute' = contribute
             /\ library'.books = library.books
             /\ chat'.messages = chat.messages
             /\ flashcards'.cards = flashcards.cards
             /\ quiz' = quiz
             /\ planner'.schedule = planner.schedule]_vars

(* C27: handleEdit runs, and a book is appended to the list, only in steps *)
(* taken while the admin flag is true; the book list changes in no other   *)
(* way than by such an append, or by starting again from the seed list;    *)
(* and it always begins with the seed list, so that with the flag false it *)
(* holds the seed books and books appended under admin mode only.          *)
C27_EditingNeedsAdmin ==
    /\ [](/\ Len(library.books) >= Len(SeedBooks)
          /\ SubSeq(library.books, 1, Len(SeedBooks)) = SeedBooks)
    /\ [][/\ lastOp'.op = "handleEdit" => (app.isAdminMode /\ app'.isAdminMode)
          /\ library'.books # library.books
               => \/ /\ lastOp'.op = "handleAddBook"
                     /\ app.isAdminMode
                     /\ Len(library'.books) = Len(library.books) + 1
                     /\ SubSeq(library'.books, 1, Len(library.books)) = library.books
                  \/ library'.books = SeedBooks
          /\ (~app.isAdminMode /\ lastOp'.op \in {"handleAddBook", "handleEdit", "handleAdd",
                                                   "handleDelete", "setTitle", "setContent"})
               => (library'.books = library.books /\ contribute'.isEditing = contribute.isEditing)]_vars

(* the owner, logged in through the form and in admin mode, has taken the  *)
(* second of two notes into the edit flow                                  *)
C27_Witness ==
    /\ lastOp.op = "handleEdit"
    /\ lastOp.n = 2
    /\ app.isAdminMode
    /\ app.user.email = OwnerEmail
    /\ contribute.isEditing # Null
    /\ Len(contribute.notes) = 1
    /\ contribute.title # ""

(* C24: every question QuizView holds has at least one option and a       *)
(* correctAnswerIndex that is the index of one of its options, whatever    *)
(* payload generateQuiz has returned.                                      *)
C24_QuestionsValid ==
    \A k \in DOMAIN quiz.questions :
        /\ Len(quiz.questions[k].options) > 0
        /\ quiz.questions[k].correctAnswerIndex \in 0..(Len(quiz.questions[k].options) - 1)

(* the provider's answer has no text: response.text is absent or empty *)
NoText(text) == text = Null \/ text = Some("")

(* no grounding chunk of the answer has a uri *)
NoUri(response) ==
    response.chunks = Null \/ \A i \in DOMAIN response.chunks[1] : response.chunks[1][i].uri = Null

(* no part of the answer has inlineData, or the call threw *)
NoImage(outcome) == outcome.threw \/ \A i \in DOMAIN outcome.parts : outcome.parts[i].inlineData = Null

(* C25: an answer without a result is handled on the success path, with    *)
(* the fallback value.  When the answer has no text, handleSummarize shows *)
(* 'Unable to summarize.' and handleAnalyze 'Could not analyze image.',    *)
(* not their error texts; when no grounding chunk has a uri,               *)
(* findExternalBookResource gives found = false and handleSearch shows no  *)
(* resource; when the answer has no image, and when the call threw,        *)
(* generateIllustration returns undefined and loadImg sets nothing; each   *)
(* of them raises no alert and ends with its loading flag false.           *)
C25_EmptyResultFallback ==
    [][LET response == lastOp'.response[1] IN
       /\ (lastOp'.op = "handleSummarizeResolved" /\ NoText(response))
            => /\ contribute'.summary = "Unable to summarize."
               /\ ~contribute'.isSummarizing
               /\ lastOp'.alert = NoAlert
       /\ (lastOp'.op = "handleAnalyzeResolved" /\ NoText(response))
            => /\ whiteboard'.analysis = "Could not analyze image."
               /\ ~whiteboard'.isAnalyzing
               /\ lastOp'.alert = NoAlert
       /\ (lastOp'.op = "handleSearchResolved" /\ NoUri(response))
            => /\ ~findExternalBookResource(libraryCalls[lastOp'.n].query, response).found
               /\ library'.externalLink = library.externalLink
               /\ ~library'.searching
               /\ lastOp'.alert = NoAlert
       /\ (lastOp'.op = "generateIllustrationReturned" /\ NoImage(response))
            => /\ generateIllustration(response) = Null
               /\ cardObjects' = cardObjects
               /\ flashcards' = flashcards
               /\ ~renderThrew'
               /\ lastOp'.alert = NoAlert]_vars

(* summarizeText has answered without text and the fallback is shown *)
C25_Witness ==
    /\ lastOp.op = "handleSummarizeResolved"
    /\ lastOp.response = Some(Null)
    /\ contribute.summary = "Unable to summarize."
    /\ ~contribute.isSummarizing

(* C26: in every transcript the ids of the messages are pairwise           *)
(* distinct: the greeting, the user messages and the placeholders of all   *)
(* turns.                                                                  *)
C26_FreshMessageIds ==
    \A j, k \in DOMAIN chat.messages :
        chat.messages[j].id = chat.messages[k].id => j = k

(* C28: a findExternalBookResource answer to a search that is not the     *)
(* latest one issued leaves the resource shown as it is, so that a         *)
(* resource shown while no call is pending was found by the latest search. *)
C28_LatestSearchOnly ==
    [][(lastOp'.op = "handleSearchResolved" /\ lastOp'.n < Len(libraryCalls))
          => library'.externalLink = library.externalLink]_vars

(* the questions of the run that have an accepted selection *)
AnsweredQuestions == {quizAnswers[k].question : k \in DOMAIN quizAnswers}

(* C29: while QuizView holds questions, currentIndex is the index of one   *)
(* of them; score is at least 0 and at most the number of questions        *)
(* answered so far, which is at most currentIndex + 1; every question      *)
(* before the current one has been answered, and nextQuestion runs only    *)
(* when the current one has been; and when handleStart succeeds            *)
(* currentIndex is 0, score 0, selectedAnswer null and showResult false.   *)
C29_QuizInvariants ==
    /\ [](Len(quiz.questions) > 0 =>
            /\ quiz.currentIndex \in 0..(Len(quiz.questions) - 1)
            /\ 0 <= quiz.score
            /\ quiz.score <= Cardinality(AnsweredQuestions)
            /\ Cardinality(AnsweredQuestions) <= quiz.currentIndex + 1
            /\ Cardinality(AnsweredQuestions) = Len(quizAnswers)
            /\ \A q \in 0..(quiz.currentIndex - 1) : q \in AnsweredQuestions
            /\ (quiz.selectedAnswer # Null) = (quiz.currentIndex \in AnsweredQuestions))
    /\ [][/\ lastOp'.op = "nextQuestion"
               => (quiz.selectedAnswer # Null /\ quiz.currentIndex \in AnsweredQuestions)
          /\ lastOp'.op = "handleStartResolved"
               => /\ quiz'.currentIndex = 0
                  /\ quiz'.score = 0
                  /\ quiz'.selectedAnswer = Null
                  /\ ~quiz'.showResult]_vars

(* the second of two questions is shown, not answered yet, after the first *)
(* was answered correctly                                                  *)
C29_Witness ==
    /\ lastOp.op = "nextQuestion"
    /\ Len(quiz.questions) = 2
    /\ quiz.currentIndex = 1
    /\ quiz.score = 1
    /\ quiz.selectedAnswer = Null
    /\ AnsweredQuestions = {0}

(* C30: handleLogout empties the user and clears the admin flag and leaves  *)
(* the settings and currentView as they are; handleLogin sets the user and *)
(* overwrites country, province, syllabus and userLevel with the profile   *)
(* typed into LoginView, and leaves the language, currentView and the      *)
(* admin flag as they are.                                                 *)
C30_LogoutLoginFrame ==
    [][/\ (lastOp'.op = "handleLogout" /\ app.user.isLoggedIn)
            => /\ app'.user = [name |-> "", email |-> "", isLoggedIn |-> FALSE]
               /\ ~app'.isAdminMode
               /\ app'.settings = app.settings
               /\ app'.currentView = app.currentView
       /\ (lastOp'.op = "handleLogin" /\ ~app.user.isLoggedIn)
            => /\ app'.user = [name |-> login.name, email |-> login.email,
                               isLoggedIn |-> TRUE]
               /\ app'.settings = [app.settings EXCEPT !.country = login.country,
                                                       !.province = login.province,
                                                       !.syllabus = login.syllabus,
                                                       !.userLevel = login.grade]
               /\ app'.settings.language = app.settings.language
               /\ app'.currentView = app.currentView
               /\ app'.isAdminMode = app.isAdminMode]_vars

(* a user is logged in after a logout of a session that chose Urdu and had *)
(* the quiz open: the language and the view are still those                *)
C30_Witness ==
    /\ lastOp.op = "handleLogin"
    /\ app.user.isLoggedIn
    /\ app.settings.language = "Urdu"
    /\ app.currentView = "QUIZ"
    /\ ~app.isAdminMode

====
